---- MODULE Spec2Model ----
(***************************************************************************)
(* asyncmigrate: the change-set model (changeset.rs) and the migration     *)
(* engine over one PostgreSQL connection (tokio_postgres.rs).              *)
(*                                                                         *)
(* The database is a committed state `db` and, while a call is running,    *)
(* the state `tx` seen inside the call's transaction.  A call is begun,    *)
(* runs its loop one change set at a time, and ends either by commit       *)
(* (db' = tx) or by an error return, which drops the transaction.          *)
(***************************************************************************)
EXTENDS Integers, Sequences, FiniteSets, TLC

VARIABLES
    db,      \* committed database: tracking table db_migration and the schema
    tx,      \* the database as seen inside the open transaction
    pc,      \* "idle", "migrate", "rollback", "update_rollback_sql", "done"
    call,    \* the running (or just finished) call and its arguments
    todo,    \* what the call's loop has still to iterate over
    result,  \* the Result the call returned (pc = "done")
    pre,     \* the committed database when the call began
    log,     \* the statements the call issued after loading, in order
    before,  \* Some(count) when the call before this one was a committed
             \* migrate(_, count) on an empty tracking table and this one
             \* is not another call than rollback(_, count), else None
    resynced, \* Some(local) when the call before this one was a committed
             \* update_rollback_sql(local) that found only down_sql to differ
             \* and this one is not another call than migrate(local, _)
    input,   \* the arguments of a function applied on its own
    output   \* the value a call or a function returned

vars == <<db, tx, pc, call, todo, result, pre, log, before, resynced, input, output>>

----------------------------------------------------------------------------
(* Bounds and input sets *)

\* longest local collection offered to a call
MaxLen == 2

Versions == {1, 10, 11}

GroupName == "generic"

\* Option<T>
None == <<>>
Some(x) == <<x>>

\* count: Option<usize>; MaxLen + 1 exceeds every collection
Counts == {None} \cup {Some(n) : n \in 0..(MaxLen + 1)}

----------------------------------------------------------------------------
(* changeset.rs: the value types *)

ChangeSetVersionName(version, name) == [version |-> version, name |-> name]

ChangeSet(version, name, up_sql, down_sql) ==
    [name |-> ChangeSetVersionName(version, name),
     up_sql |-> up_sql,
     down_sql |-> down_sql]

MigrationChangeSets(group_name, change_sets) ==
    [group_name |-> group_name, change_sets |-> change_sets]

\* The (name, up_sql, down_sql) contents a change set file pair may have:
\* a table with its proper revert script, the same without a revert script,
\* the same under another name, and a second table with a revert script that
\* is its own or that of the first table.
Variants ==
    { <<"setup", "CREATE T1", Some("DROP T1")>>,
      <<"setup", "CREATE T1", None>>,
      <<"patch", "CREATE T1", Some("DROP T1")>>,
      <<"setup", "CREATE T2", Some("DROP T2")>>,
      <<"setup", "CREATE T2", Some("DROP T1")>> }

ChangeSetPool ==
    { ChangeSet(v, x[1], x[2], x[3]) : v \in Versions, x \in Variants }

\* Collections as the loader returns them: strictly ascending by version.
RECURSIVE Ascending(_)
Ascending(n) ==
    IF n = 0 THEN { <<>> }
    ELSE LET shorter == Ascending(n - 1)
             longest == { q \in shorter : Len(q) = n - 1 }
         IN  shorter \cup
             { Append(p[1], p[2]) :
                 p \in { q \in longest \X ChangeSetPool :
                            \/ q[1] = <<>>
                            \/ q[1][Len(q[1])].name.version < q[2].name.version } }

LocalInputs ==
    { MigrationChangeSets(GroupName, s) : s \in Ascending(MaxLen) }

----------------------------------------------------------------------------
(* error.rs: the results a call returns *)

Ok == [kind |-> "Ok", msg |-> "", local |-> 0, database |-> 0]

VersionMismatchError(local, database) ==
    [kind |-> "VersionMismatchError", msg |-> "", local |-> local, database |-> database]

InconsistentMigrationError(msg, version) ==
    [kind |-> "InconsistentMigrationError", msg |-> msg, local |-> version, database |-> 0]

OtherError(msg) == [kind |-> "OtherError", msg |-> msg, local |-> 0, database |-> 0]

\* From<tokio_postgres::Error>: any failure of a statement
PostgresError == [kind |-> "PostgresError", msg |-> "", local |-> 0, database |-> 0]

\* change_sets[range] with the range end beyond the length: the slice index panics
Panic == [kind |-> "panic", msg |-> "range end index out of range", local |-> 0, database |-> 0]

----------------------------------------------------------------------------
(* changeset.rs: subset and calc_diff *)

Min(a, b) == IF a < b THEN a ELSE b

\* subset that ignores its range and returns the whole collection
subset_whole(self, count) == self

\* subset(..count); callers check count <= len first (the slice panics otherwise)
subset(self, count) ==
    MigrationChangeSets(self.group_name, SubSeq(self.change_sets, 1, count))

\* a zip loop that compares the names before the versions
RECURSIVE calc_diff_zip_name_first(_, _, _)
calc_diff_zip_name_first(local, original, i) ==
    IF i > Min(Len(local), Len(original)) THEN Ok
    ELSE IF local[i].name # original[i].name
         THEN InconsistentMigrationError("Mismatch name", local[i].name.version)
    ELSE IF local[i].name.version # original[i].name.version
         THEN VersionMismatchError(local[i].name.version, original[i].name.version)
    ELSE IF local[i].up_sql # original[i].up_sql
         THEN InconsistentMigrationError("Up SQL mismatch", local[i].name.version)
    ELSE IF local[i].down_sql # original[i].down_sql
         THEN InconsistentMigrationError("Down SQL mismatch", local[i].name.version)
    ELSE calc_diff_zip_name_first(local, original, i + 1)

\* the zip loop of calc_diff from index i on: the first failing check, or Ok
RECURSIVE calc_diff_zip(_, _, _)
calc_diff_zip(local, original, i) ==
    IF i > Min(Len(local), Len(original)) THEN Ok
    ELSE IF local[i].name.version # original[i].name.version
         THEN VersionMismatchError(local[i].name.version, original[i].name.version)
    ELSE IF local[i].name # original[i].name
         THEN InconsistentMigrationError("Mismatch name", local[i].name.version)
    ELSE IF local[i].up_sql # original[i].up_sql
         THEN InconsistentMigrationError("Up SQL mismatch", local[i].name.version)
    ELSE IF local[i].down_sql # original[i].down_sql
         THEN InconsistentMigrationError("Down SQL mismatch", local[i].name.version)
    ELSE calc_diff_zip(local, original, i + 1)

\* calc_diff without the check that local is not shorter than the history
calc_diff_no_length_check(self, original_sets) ==
    LET local == self.change_sets
        original == original_sets.change_sets
        zipped == calc_diff_zip(local, original, 1)
    IN  IF zipped # Ok
        THEN [res |-> zipped, sets |-> MigrationChangeSets(self.group_name, <<>>)]
        ELSE [res |-> Ok,
              sets |-> MigrationChangeSets(self.group_name,
                           SubSeq(local, Len(original) + 1, Len(local)))]

\* calc_diff that returns all of self instead of what follows the history
calc_diff_whole(self, original_sets) ==
    LET local == self.change_sets
        original == original_sets.change_sets
        zipped == calc_diff_zip(local, original, 1)
    IN  IF zipped # Ok
        THEN [res |-> zipped, sets |-> MigrationChangeSets(self.group_name, <<>>)]
        ELSE IF Len(local) < Len(original)
        THEN [res |-> InconsistentMigrationError(
                          "Some migration is not found in local files",
                          original[Len(local) + 1].name.version),
              sets |-> MigrationChangeSets(self.group_name, <<>>)]
        ELSE [res |-> Ok, sets |-> self]

\* calc_diff that reports the last version of the history as not found
calc_diff_reports_last(self, original_sets) ==
    LET local == self.change_sets
        original == original_sets.change_sets
        zipped == calc_diff_zip(local, original, 1)
    IN  IF zipped # Ok
        THEN [res |-> zipped, sets |-> MigrationChangeSets(self.group_name, <<>>)]
        ELSE IF Len(local) < Len(original)
        THEN [res |-> InconsistentMigrationError(
                          "Some migration is not found in local files",
                          original[Len(original)].name.version),
              sets |-> MigrationChangeSets(self.group_name, <<>>)]
        ELSE [res |-> Ok,
              sets |-> MigrationChangeSets(self.group_name,
                           SubSeq(local, Len(original) + 1, Len(local)))]

\* calc_diff: [res: the Result's error or Ok, sets: the Ok value]
calc_diff(self, original_sets) ==
    LET local == self.change_sets
        original == original_sets.change_sets
        zipped == calc_diff_zip(local, original, 1)
    IN  IF zipped # Ok
        THEN [res |-> zipped, sets |-> MigrationChangeSets(self.group_name, <<>>)]
        ELSE IF Len(local) < Len(original)
        THEN [res |-> InconsistentMigrationError(
                          "Some migration is not found in local files",
                          original[Len(local) + 1].name.version),
              sets |-> MigrationChangeSets(self.group_name, <<>>)]
        ELSE [res |-> Ok,
              sets |-> MigrationChangeSets(self.group_name,
                           SubSeq(local, Len(original) + 1, Len(local)))]

----------------------------------------------------------------------------
(* The executor: the tracking table db_migration and the schema *)

Tables == {"T1", "T2"}

\* a database state: whether db_migration exists, its rows, the schema's tables
EmptyDatabase == [exists |-> FALSE, rows |-> {}, schema |-> {}]

TrackingRow(group_name, changeset) ==
    [group_name |-> group_name,
     version |-> changeset.name.version,
     name |-> changeset.name.name,
     up_sql |-> changeset.up_sql,
     down_sql |-> changeset.down_sql]

\* what a script does: one CREATE TABLE or DROP TABLE statement, or a
\* statement that touches no table of the schema
SqlStatement ==
    [sql \in {"CREATE T1", "CREATE T2", "DROP T1", "DROP T2", "SELECT 1"} |->
        CASE sql = "CREATE T1" -> <<"create", "T1">>
          [] sql = "CREATE T2" -> <<"create", "T2">>
          [] sql = "DROP T1" -> <<"drop", "T1">>
          [] sql = "DROP T2" -> <<"drop", "T2">>
          [] sql = "SELECT 1" -> <<"select", "">>]

\* batch_execute(sql): CREATE fails on an existing table, DROP on a missing one
batch_execute(t, sql) ==
    LET st == SqlStatement[sql]
    IN  IF st[1] = "create"
        THEN IF st[2] \in t.schema
             THEN [ok |-> FALSE, tx |-> t]
             ELSE [ok |-> TRUE, tx |-> [t EXCEPT !.schema = @ \cup {st[2]}]]
        ELSE IF st[1] = "select"
        THEN [ok |-> TRUE, tx |-> t]
        ELSE IF st[2] \in t.schema
             THEN [ok |-> TRUE, tx |-> [t EXCEPT !.schema = @ \ {st[2]}]]
             ELSE [ok |-> FALSE, tx |-> t]

\* CREATE TABLE IF NOT EXISTS db_migration
setup_table(t) == [t EXCEPT !.exists = TRUE]

\* an INSERT into a db_migration without its PRIMARY KEY
execute_insert_no_key(t, row) ==
    [ok |-> TRUE, tx |-> [t EXCEPT !.rows = @ \cup {row}]]

\* INSERT INTO db_migration: PRIMARY KEY(group_name, version)
execute_insert(t, row) ==
    IF \E r \in t.rows : r.group_name = row.group_name /\ r.version = row.version
    THEN [ok |-> FALSE, tx |-> t]
    ELSE [ok |-> TRUE, tx |-> [t EXCEPT !.rows = @ \cup {row}]]

\* a DELETE whose WHERE names the version alone
execute_delete_any_group(t, group_name, version) ==
    [t EXCEPT !.rows = { r \in @ : r.version # version }]

\* DELETE FROM db_migration WHERE group_name = $1 AND version = $2
execute_delete(t, group_name, version) ==
    [t EXCEPT !.rows = { r \in @ : ~(r.group_name = group_name /\ r.version = version) }]

\* an UPDATE that matches no row
execute_update_no_effect(t, down_sql, group_name, version) == t

\* UPDATE db_migration SET down_sql = $1 WHERE group_name = $2 AND version = $3
execute_update(t, down_sql, group_name, version) ==
    [t EXCEPT !.rows =
        { IF r.group_name = group_name /\ r.version = version
          THEN [r EXCEPT !.down_sql = down_sql]
          ELSE r : r \in @ }]

\* ORDER BY version
RECURSIVE order_by_version(_)
order_by_version(rows) ==
    IF rows = {} THEN <<>>
    ELSE LET first == CHOOSE r \in rows : \A q \in rows : r.version <= q.version
         IN  <<first>> \o order_by_version(rows \ {first})

\* the SELECT without its WHERE group_name = $1
query_change_sets_all_groups(t, group_name) ==
    LET rows == order_by_version(t.rows)
    IN  MigrationChangeSets(group_name,
            [i \in 1..Len(rows) |->
                ChangeSet(rows[i].version, rows[i].name, rows[i].up_sql, rows[i].down_sql)])

\* SELECT ... WHERE group_name = $1 ORDER BY version, as a MigrationChangeSets
query_change_sets(t, group_name) ==
    LET rows == order_by_version({ r \in t.rows : r.group_name = group_name })
    IN  MigrationChangeSets(group_name,
            [i \in 1..Len(rows) |->
                ChangeSet(rows[i].version, rows[i].name, rows[i].up_sql, rows[i].down_sql)])

\* load_migration_set: setup_table, then the query
load_migration_set(t, group_name) ==
    [tx |-> setup_table(t), sets |-> query_change_sets(setup_table(t), group_name)]

\* a log entry: a statement the call issued, and whether it succeeded
Statement(stmt, version, sql, ok) ==
    [stmt |-> stmt, version |-> version, sql |-> sql, ok |-> ok]

----------------------------------------------------------------------------
(* tokio_postgres.rs: the engine.  `fault` is the executor failing the      *)
(* parameterised statement of the step (connection lost, statement timeout). *)

\* a migrate_one that inserts the tracking row before it executes up_sql
migrate_one_insert_first(t, group_name, changeset, fault) ==
    LET version == changeset.name.version
        ins == execute_insert(setup_table(t), TrackingRow(group_name, changeset))
        up == batch_execute(ins.tx, changeset.up_sql)
    IN  IF fault \/ ~ins.ok
        THEN [ok |-> FALSE, tx |-> setup_table(t),
              log |-> << Statement("insert", version, "", FALSE) >>]
        ELSE [ok |-> up.ok, tx |-> up.tx,
              log |-> << Statement("insert", version, "", TRUE),
                         Statement("batch_execute", version, changeset.up_sql, up.ok) >>]

\* migrate_one: setup_table, batch_execute(up_sql), INSERT the tracking row
migrate_one(t, group_name, changeset, fault) ==
    LET version == changeset.name.version
        up == batch_execute(setup_table(t), changeset.up_sql)
        ins == execute_insert(up.tx, TrackingRow(group_name, changeset))
    IN  IF ~up.ok
        THEN [ok |-> FALSE, tx |-> up.tx,
              log |-> << Statement("batch_execute", version, changeset.up_sql, FALSE) >>]
        ELSE IF fault \/ ~ins.ok
        THEN [ok |-> FALSE, tx |-> up.tx,
              log |-> << Statement("batch_execute", version, changeset.up_sql, TRUE),
                         Statement("insert", version, "", FALSE) >>]
        ELSE [ok |-> TRUE, tx |-> ins.tx,
              log |-> << Statement("batch_execute", version, changeset.up_sql, TRUE),
                         Statement("insert", version, "", TRUE) >>]

\* rollback_one that refuses a change set without down_sql
rollback_one_requires_down(t, group_name, changeset, fault) ==
    LET version == changeset.name.version
        deleted == execute_delete(t, group_name, version)
    IN  IF fault
        THEN [ok |-> FALSE, tx |-> t,
              log |-> << Statement("delete", version, "", FALSE) >>]
        ELSE IF changeset.down_sql = None
        THEN [ok |-> FALSE, tx |-> t, log |-> <<>>]
        ELSE LET down == batch_execute(deleted, changeset.down_sql[1])
             IN  [ok |-> down.ok, tx |-> down.tx,
                  log |-> << Statement("delete", version, "", TRUE),
                             Statement("batch_execute", version,
                                       changeset.down_sql[1], down.ok) >>]

\* rollback_one that only deletes the tracking row
rollback_one_no_down(t, group_name, changeset, fault) ==
    LET version == changeset.name.version
    IN  IF fault
        THEN [ok |-> FALSE, tx |-> t,
              log |-> << Statement("delete", version, "", FALSE) >>]
        ELSE [ok |-> TRUE, tx |-> execute_delete(t, group_name, version),
              log |-> << Statement("delete", version, "", TRUE) >>]

\* a rollback_one that executes down_sql before it deletes the tracking row
rollback_one_down_first(t, group_name, changeset, fault) ==
    LET version == changeset.name.version
        down == IF changeset.down_sql = None
                THEN [ok |-> TRUE, tx |-> t]
                ELSE batch_execute(t, changeset.down_sql[1])
        ran == IF changeset.down_sql = None THEN <<>>
               ELSE << Statement("batch_execute", version, changeset.down_sql[1], down.ok) >>
    IN  IF ~down.ok
        THEN [ok |-> FALSE, tx |-> down.tx, log |-> ran]
        ELSE IF fault
        THEN [ok |-> FALSE, tx |-> down.tx,
              log |-> ran \o << Statement("delete", version, "", FALSE) >>]
        ELSE [ok |-> TRUE, tx |-> execute_delete(down.tx, group_name, version),
              log |-> ran \o << Statement("delete", version, "", TRUE) >>]

\* rollback_one: DELETE the tracking row, then batch_execute(down_sql) if present
rollback_one(t, group_name, changeset, fault) ==
    LET version == changeset.name.version
        deleted == execute_delete(t, group_name, version)
    IN  IF fault
        THEN [ok |-> FALSE, tx |-> t,
              log |-> << Statement("delete", version, "", FALSE) >>]
        ELSE IF changeset.down_sql = None
        THEN [ok |-> TRUE, tx |-> deleted,
              log |-> << Statement("delete", version, "", TRUE) >>]
        ELSE LET down == batch_execute(deleted, changeset.down_sql[1])
             IN  [ok |-> down.ok, tx |-> down.tx,
                  log |-> << Statement("delete", version, "", TRUE),
                             Statement("batch_execute", version,
                                       changeset.down_sql[1], down.ok) >>]

\* update_rollback_sql_one that rewrites up_sql as well
update_rollback_sql_one_all_columns(t, group_name, changeset, fault) ==
    LET version == changeset.name.version
    IN  IF fault
        THEN [ok |-> FALSE, tx |-> t,
              log |-> << Statement("update", version, "", FALSE) >>]
        ELSE [ok |-> TRUE,
              tx |-> [t EXCEPT !.rows =
                        { IF r.group_name = group_name /\ r.version = version
                          THEN TrackingRow(group_name, changeset)
                          ELSE r : r \in @ }],
              log |-> << Statement("update", version, "", TRUE) >>]

\* update_rollback_sql_one that leaves the stored script when the local one is absent
update_rollback_sql_one_skips_none(t, group_name, changeset, fault) ==
    LET version == changeset.name.version
    IN  IF fault
        THEN [ok |-> FALSE, tx |-> t,
              log |-> << Statement("update", version, "", FALSE) >>]
        ELSE [ok |-> TRUE,
              tx |-> IF changeset.down_sql = None
                     THEN t
                     ELSE execute_update(t, changeset.down_sql, group_name, version),
              log |-> << Statement("update", version, "", TRUE) >>]

\* update_rollback_sql_one: UPDATE the stored down_sql to the local one
update_rollback_sql_one(t, group_name, changeset, fault) ==
    LET version == changeset.name.version
    IN  IF fault
        THEN [ok |-> FALSE, tx |-> t,
              log |-> << Statement("update", version, "", FALSE) >>]
        ELSE [ok |-> TRUE,
              tx |-> execute_update(t, changeset.down_sql, group_name, version),
              log |-> << Statement("update", version, "", TRUE) >>]

\* a migrate_postgres whose subset(..count) stops at the end of the plan
migrate_postgres_truncates(client, changesets, count) ==
    LET loaded == load_migration_set(client, changesets.group_name)
        diff == calc_diff(changesets, loaded.sets)
    IN  IF diff.res # Ok
        THEN [res |-> diff.res, tx |-> loaded.tx, todo |-> <<>>]
        ELSE IF count = None
        THEN [res |-> Ok, tx |-> loaded.tx, todo |-> diff.sets.change_sets]
        ELSE [res |-> Ok, tx |-> loaded.tx,
              todo |-> subset(diff.sets, Min(count[1], Len(diff.sets.change_sets))).change_sets]

\* migrate_postgres up to its loop: load, calc_diff, subset(..count)
migrate_postgres(client, changesets, count) ==
    LET loaded == load_migration_set(client, changesets.group_name)
        diff == calc_diff(changesets, loaded.sets)
    IN  IF diff.res # Ok
        THEN [res |-> diff.res, tx |-> loaded.tx, todo |-> <<>>]
        ELSE IF count = None
        THEN [res |-> Ok, tx |-> loaded.tx, todo |-> diff.sets.change_sets]
        ELSE IF count[1] > Len(diff.sets.change_sets)
        THEN [res |-> Panic, tx |-> loaded.tx, todo |-> <<>>]
        ELSE [res |-> Ok, tx |-> loaded.tx,
              todo |-> subset(diff.sets, count[1]).change_sets]

\* take(count) without rev(): the lowest versions first
take_no_rev(change_sets, count) ==
    [i \in 1..Min(count, Len(change_sets)) |-> change_sets[i]]

\* iter().rev().take(count)
rev_take(change_sets, count) ==
    [i \in 1..Min(count, Len(change_sets)) |-> change_sets[Len(change_sets) + 1 - i]]

\* rollback_postgres without the length check
rollback_postgres_no_check(client, group_name, count) ==
    LET loaded == load_migration_set(client, group_name)
        len == Len(loaded.sets.change_sets)
        n == IF count = None THEN len ELSE count[1]
    IN  [res |-> Ok, tx |-> loaded.tx, todo |-> rev_take(loaded.sets.change_sets, n)]

\* rollback_postgres up to its loop: load, the default count, the length check
rollback_postgres(client, group_name, count) ==
    LET loaded == load_migration_set(client, group_name)
        len == Len(loaded.sets.change_sets)
        n == IF count = None THEN len ELSE count[1]
    IN  IF len < n
        THEN [res |-> OtherError("No change sets to revert"), tx |-> loaded.tx,
              todo |-> <<>>]
        ELSE [res |-> Ok, tx |-> loaded.tx,
              todo |-> rev_take(loaded.sets.change_sets, n)]

\* update_rollback_sql_postgres up to its loop: load, zip(local, db)
update_rollback_sql_postgres(client, changesets) ==
    LET loaded == load_migration_set(client, changesets.group_name)
        local == changesets.change_sets
        database == loaded.sets.change_sets
    IN  [res |-> Ok, tx |-> loaded.tx,
         todo |-> [i \in 1..Min(Len(local), Len(database)) |-> <<local[i], database[i]>>]]

\* a loop body that passes over a pair whose version or name differ
update_rollback_sql_pair_skips(t, group_name, local, database, fault) ==
    IF local.name # database.name
    THEN [res |-> Ok, tx |-> t, log |-> <<>>]
    ELSE IF local.down_sql # database.down_sql
    THEN LET one == update_rollback_sql_one(t, group_name, local, fault)
         IN  [res |-> IF one.ok THEN Ok ELSE PostgresError, tx |-> one.tx, log |-> one.log]
    ELSE [res |-> Ok, tx |-> t, log |-> <<>>]

\* the body of the zip loop for one (local, db) pair
update_rollback_sql_pair(t, group_name, local, database, fault) ==
    IF local.name # database.name
    THEN [res |-> OtherError("version number or version name is not match"),
          tx |-> t, log |-> <<>>]
    ELSE IF local.down_sql # database.down_sql
    THEN LET one == update_rollback_sql_one(t, group_name, local, fault)
         IN  [res |-> IF one.ok THEN Ok ELSE PostgresError, tx |-> one.tx, log |-> one.log]
    ELSE [res |-> Ok, tx |-> t, log |-> <<>>]

\* a dropped transaction whose statements stay
drop_transaction_keeps(committed, t) == t

\* the transaction is dropped without commit: ROLLBACK
drop_transaction(committed, t) == committed

\* transaction.commit()
commit_transaction(committed, t) == t

----------------------------------------------------------------------------
(* The calls of the Migration trait on Client *)

NoCall == [op |-> "none", changesets |-> MigrationChangeSets("", <<>>), count |-> None]

Init ==
    /\ db = EmptyDatabase
    /\ tx = EmptyDatabase
    /\ pc = "idle"
    /\ call = NoCall
    /\ todo = <<>>
    /\ result = Ok
    /\ pre = EmptyDatabase
    /\ log = <<>>
    /\ before = None
    /\ resynced = None
    /\ input = <<>>
    /\ output = <<>>

\* the call returns Err (or unwinds): the transaction is dropped
ReturnErr(res, t, issued) ==
    /\ pc' = "done"
    /\ result' = res
    /\ db' = drop_transaction(db, t)
    /\ tx' = db'
    /\ todo' = <<>>
    /\ log' = log \o issued

\* the loop is over: transaction.commit(), which the executor may fail
Commit(fault) ==
    /\ pc' = "done"
    /\ result' = IF fault THEN PostgresError ELSE Ok
    /\ db' = IF fault THEN drop_transaction(db, tx) ELSE commit_transaction(db, tx)
    /\ tx' = db'
    /\ todo' = <<>>
    /\ log' = Append(log, Statement("commit", 0, "", ~fault))

\* the call enters its loop
Enter(op, begun) ==
    /\ pc' = op
    /\ tx' = begun.tx
    /\ todo' = begun.todo
    /\ UNCHANGED <<db, result, log>>

Begin(op, changesets, count) ==
    /\ pc = "idle"
    /\ call' = [op |-> op, changesets |-> changesets, count |-> count]
    /\ pre' = db
    /\ before' = IF op = "rollback" /\ before = Some(count) THEN before ELSE None
    /\ resynced' = IF op = "migrate" /\ resynced = Some(changesets) THEN resynced ELSE None
    /\ UNCHANGED <<input, output>>

migrate(changesets, count) ==
    /\ Begin("migrate", changesets, count)
    /\ LET begun == migrate_postgres(db, changesets, count)
       IN  IF begun.res = Ok
           THEN Enter("migrate", begun)
           ELSE ReturnErr(begun.res, begun.tx, <<>>)

migrate_loop ==
    /\ pc = "migrate"
    /\ todo # <<>>
    /\ \E fault \in BOOLEAN :
         LET one == migrate_one(tx, call.changesets.group_name, Head(todo), fault)
         IN  IF one.ok
             THEN /\ tx' = one.tx
                  /\ todo' = Tail(todo)
                  /\ log' = log \o one.log
                  /\ UNCHANGED <<db, pc, result>>
             ELSE ReturnErr(PostgresError, one.tx, one.log)
    /\ UNCHANGED <<call, pre, before, resynced, input, output>>

migrate_commit ==
    /\ pc = "migrate"
    /\ todo = <<>>
    /\ \E fault \in BOOLEAN : Commit(fault)
    /\ UNCHANGED <<call, pre, before, resynced, input, output>>

rollback(group_name, count) ==
    /\ Begin("rollback", MigrationChangeSets(group_name, <<>>), count)
    /\ LET begun == rollback_postgres(db, group_name, count)
       IN  IF begun.res = Ok
           THEN Enter("rollback", begun)
           ELSE ReturnErr(begun.res, begun.tx, <<>>)

rollback_loop ==
    /\ pc = "rollback"
    /\ todo # <<>>
    /\ \E fault \in BOOLEAN :
         LET one == rollback_one(tx, call.changesets.group_name, Head(todo), fault)
         IN  IF one.ok
             THEN /\ tx' = one.tx
                  /\ todo' = Tail(todo)
                  /\ log' = log \o one.log
                  /\ UNCHANGED <<db, pc, result>>
             ELSE ReturnErr(PostgresError, one.tx, one.log)
    /\ UNCHANGED <<call, pre, before, resynced, input, output>>

rollback_commit ==
    /\ pc = "rollback"
    /\ todo = <<>>
    /\ \E fault \in BOOLEAN : Commit(fault)
    /\ UNCHANGED <<call, pre, before, resynced, input, output>>

update_rollback_sql(changesets) ==
    /\ Begin("update_rollback_sql", changesets, None)
    /\ Enter("update_rollback_sql", update_rollback_sql_postgres(db, changesets))

update_rollback_sql_loop ==
    /\ pc = "update_rollback_sql"
    /\ todo # <<>>
    /\ \E fault \in BOOLEAN :
         LET pair == update_rollback_sql_pair(tx, call.changesets.group_name,
                                              Head(todo)[1], Head(todo)[2], fault)
         IN  IF pair.res = Ok
             THEN /\ tx' = pair.tx
                  /\ todo' = Tail(todo)
                  /\ log' = log \o pair.log
                  /\ UNCHANGED <<db, pc, result>>
             ELSE ReturnErr(pair.res, pair.tx, pair.log)
    /\ UNCHANGED <<call, pre, before, resynced, input, output>>

update_rollback_sql_commit ==
    /\ pc = "update_rollback_sql"
    /\ todo = <<>>
    /\ \E fault \in BOOLEAN : Commit(fault)
    /\ UNCHANGED <<call, pre, before, resynced, input, output>>

\* local holds every applied change set with its version, name and up_sql,
\* and the down_sql of at least one of them is another
OnlyDownSqlDiffers(local, applied) ==
    /\ Len(local) >= Len(applied)
    /\ \A i \in 1..Len(applied) :
          local[i].name = applied[i].name /\ local[i].up_sql = applied[i].up_sql
    /\ \E i \in 1..Len(applied) : local[i].down_sql # applied[i].down_sql

\* load_applied_change_sets: the transaction, load_migration_set
load_applied_change_sets(group_name) ==
    /\ Begin("load_applied_change_sets", MigrationChangeSets(group_name, <<>>), None)
    /\ LET loaded == load_migration_set(db, group_name)
       IN  Enter("load_applied_change_sets",
                 [tx |-> loaded.tx, todo |-> loaded.sets.change_sets])

\* load_applied_change_sets: commit, Ok(changesets)
load_applied_change_sets_commit ==
    /\ pc = "load_applied_change_sets"
    /\ \E fault \in BOOLEAN :
          /\ Commit(fault)
          /\ output' = IF fault THEN <<>>
                       ELSE << MigrationChangeSets(call.changesets.group_name, todo) >>
    /\ UNCHANGED <<call, pre, before, resynced, input>>

\* the caller has the Result; the connection is free for the next call
Return ==
    /\ pc = "done"
    /\ pc' = "idle"
    /\ call' = NoCall
    /\ result' = Ok
    /\ pre' = db
    /\ log' = <<>>
    /\ before' = IF /\ call.op = "migrate"
                    /\ result = Ok
                    /\ query_change_sets(pre, call.changesets.group_name).change_sets = <<>>
                 THEN Some(call.count)
                 ELSE None
    /\ resynced' = IF /\ call.op = "update_rollback_sql"
                      /\ result = Ok
                      /\ OnlyDownSqlDiffers(call.changesets.change_sets,
                             query_change_sets(pre, call.changesets.group_name).change_sets)
                   THEN Some(call.changesets)
                   ELSE None
    /\ output' = <<>>
    /\ UNCHANGED <<db, tx, todo, input>>

Next ==
    \/ \E changesets \in LocalInputs, count \in Counts : migrate(changesets, count)
    \/ migrate_loop
    \/ migrate_commit
    \/ \E count \in Counts : rollback(GroupName, count)
    \/ rollback_loop
    \/ rollback_commit
    \/ \E changesets \in LocalInputs : update_rollback_sql(changesets)
    \/ update_rollback_sql_loop
    \/ update_rollback_sql_commit
    \/ load_applied_change_sets(GroupName)
    \/ load_applied_change_sets_commit
    \/ Return

Spec == Init /\ [][Next]_vars

-----------------------------------------------------------------------------
(* tokio_postgres.rs: every call made with one local collection, `input` *)

InitOneLocal ==
    /\ db = EmptyDatabase
    /\ tx = EmptyDatabase
    /\ pc = "idle"
    /\ call = NoCall
    /\ todo = <<>>
    /\ result = Ok
    /\ pre = EmptyDatabase
    /\ log = <<>>
    /\ before = None
    /\ resynced = None
    /\ input \in LocalInputs
    /\ output = <<>>

NextOneLocal ==
    \/ \E count \in Counts : migrate(input, count)
    \/ migrate_loop
    \/ migrate_commit
    \/ \E count \in Counts : rollback(input.group_name, count)
    \/ rollback_loop
    \/ rollback_commit
    \/ update_rollback_sql(input)
    \/ update_rollback_sql_loop
    \/ update_rollback_sql_commit
    \/ Return

SpecOneLocal == InitOneLocal /\ [][NextOneLocal]_vars

-----------------------------------------------------------------------------
(* changeset.rs: calc_diff applied on its own to two collections *)

GroupNames == {GroupName, "default"}

\* self and original_sets: any two ascending collections, of any groups
DiffInputs ==
    { <<self, MigrationChangeSets(g, original)>> :
         self \in LocalInputs, g \in GroupNames, original \in Ascending(MaxLen) }

InitDiff ==
    /\ db = EmptyDatabase
    /\ tx = EmptyDatabase
    /\ pc = "calc_diff"
    /\ call = NoCall
    /\ todo = <<>>
    /\ result = Ok
    /\ pre = EmptyDatabase
    /\ log = <<>>
    /\ before = None
    /\ resynced = None
    /\ input \in DiffInputs
    /\ output = <<>>

\* self.calc_diff(&original_sets)
calc_diff_call ==
    /\ pc = "calc_diff"
    /\ output' = calc_diff(input[1], input[2])
    /\ pc' = "returned"
    /\ UNCHANGED <<db, tx, call, todo, result, pre, log, before, resynced, input>>

NextDiff == calc_diff_call

SpecDiff == InitDiff /\ [][NextDiff]_vars

-----------------------------------------------------------------------------
(* tokio_postgres.rs: one connection used for the change sets of two groups *)

\* the versions the two groups both use
GroupVersions == {1, 10}

GroupInputs ==
    { MigrationChangeSets(g, s) :
        g \in GroupNames,
        s \in { a \in Ascending(MaxLen) :
                  \A i \in 1..Len(a) : a[i].name.version \in GroupVersions } }

NextGroups ==
    \/ \E changesets \in GroupInputs : migrate(changesets, None)
    \/ migrate_loop
    \/ migrate_commit
    \/ \E g \in GroupNames : rollback(g, None)
    \/ rollback_loop
    \/ rollback_commit
    \/ \E changesets \in GroupInputs : update_rollback_sql(changesets)
    \/ update_rollback_sql_loop
    \/ update_rollback_sql_commit
    \/ \E g \in GroupNames : load_applied_change_sets(g)
    \/ load_applied_change_sets_commit
    \/ Return

SpecGroups == Init /\ [][NextGroups]_vars

-----------------------------------------------------------------------------
(* asyncmigrate-cli, commands/migrate.rs: MigrateCommand::run.  `input` is  *)
(* the configuration and the arguments, `output` the position of the for    *)
(* loop, the migrate calls made so far and the value run returned.          *)

\* what load_dir gives for the directory of a configured group: a collection,
\* or None for an Err
ConfigSets(group_name) ==
    [group_name : {group_name},
     loaded : {None} \cup { Some(c) : c \in { x \in GroupInputs : x.group_name = group_name } }]

\* config.changesets: one or two groups, in either order
Configs ==
    { <<a>> : a \in UNION { ConfigSets(g) : g \in GroupNames } } \cup
    { <<a, b>> : a \in ConfigSets(GroupName), b \in ConfigSets("default") } \cup
    { <<b, a>> : a \in ConfigSets(GroupName), b \in ConfigSets("default") }

\* the arguments group_name and count
CliInputs ==
    [changesets : Configs,
     group_name : {None, Some(GroupName)},
     count : {None, Some(1)}]

InitCli ==
    /\ db = EmptyDatabase
    /\ tx = EmptyDatabase
    /\ pc = "idle"
    /\ call = NoCall
    /\ todo = <<>>
    /\ result = Ok
    /\ pre = EmptyDatabase
    /\ log = <<>>
    /\ before = None
    /\ resynced = None
    /\ input \in CliInputs
    /\ output = [next |-> 1, runs |-> <<>>, exit |-> None]

\* a `?` that does not return on an Err
question_mark_ignores(res) == None

\* the `?` after .await: Some(error) when run returns it, None to go on
question_mark(res) == IF res = Ok THEN None ELSE Some(res)

\* the body of the for loop up to the call of connect.migrate
run_group ==
    /\ pc = "idle"
    /\ output.exit = None
    /\ output.next <= Len(input.changesets)
    /\ LET one_change_sets == input.changesets[output.next]
       IN  IF /\ input.group_name # None
              /\ input.group_name[1] # one_change_sets.group_name
           THEN /\ output' = [output EXCEPT !.next = @ + 1]
                /\ UNCHANGED <<db, tx, pc, call, todo, result, pre, log, before,
                               resynced, input>>
           ELSE IF one_change_sets.loaded = None
           THEN /\ output' = [output EXCEPT
                                 !.exit = Some(OtherError("Failed to load migration SQLs"))]
                /\ pc' = "exit"
                /\ UNCHANGED <<db, tx, call, todo, result, pre, log, before,
                               resynced, input>>
           ELSE migrate(one_change_sets.loaded[1], input.count)

\* connect.migrate(..).await? has returned: the next group, or the Err
run_next ==
    /\ pc = "done"
    /\ output' = [next |-> output.next + 1,
                  runs |-> Append(output.runs,
                               [index |-> output.next, result |-> result,
                                pre |-> pre, post |-> db]),
                  exit |-> question_mark(result)]
    /\ pc' = IF question_mark(result) = None THEN "idle" ELSE "exit"
    /\ call' = NoCall
    /\ result' = Ok
    /\ pre' = db
    /\ log' = <<>>
    /\ before' = None
    /\ resynced' = None
    /\ UNCHANGED <<db, tx, todo, input>>

\* the for loop is over: Ok(())
run_exit ==
    /\ pc = "idle"
    /\ output.exit = None
    /\ output.next > Len(input.changesets)
    /\ output' = [output EXCEPT !.exit = Some(Ok)]
    /\ pc' = "exit"
    /\ UNCHANGED <<db, tx, call, todo, result, pre, log, before, resynced, input>>

NextCli ==
    \/ run_group
    \/ migrate_loop
    \/ migrate_commit
    \/ run_next
    \/ run_exit

SpecCli == InitCli /\ [][NextCli]_vars

-----------------------------------------------------------------------------
(* tokio_postgres.rs: two connections, each making one migrate call with    *)
(* the local collection `input`.  Here tx, pc, todo, result and log are     *)
(* functions of the connection; tx[c] holds what the transaction of c has   *)
(* written and not committed, db what is committed, and `output` the        *)
(* statements of the committed transactions, in commit order.  The executor *)
(* runs each statement against what is committed plus the transaction's own *)
(* writes, and makes a statement wait while the other transaction holds an  *)
(* uncommitted write of the same table or the same primary key.             *)

Connections == {1, 2}

Other(c) == 3 - c

\* the scripts of the concurrent calls: one that touches no table, and tables
ConcurrentPool ==
    { ChangeSet(v, x[1], x[2], x[3]) :
        v \in {1, 10},
        x \in { <<"setup", "SELECT 1", None>>,
                <<"setup", "CREATE T1", Some("DROP T1")>>,
                <<"patch", "CREATE T2", Some("DROP T2")>> } }

ConcurrentInputs ==
    { MigrationChangeSets(GroupName, <<a>>) : a \in ConcurrentPool } \cup
    { MigrationChangeSets(GroupName, <<p[1], p[2]>>) :
        p \in { q \in ConcurrentPool \X ConcurrentPool :
                   q[1].name.version < q[2].name.version } }

\* what the transaction of c reads: the committed state and its own writes
View(c) ==
    [exists |-> db.exists \/ tx[c].exists,
     rows |-> db.rows \cup tx[c].rows,
     schema |-> db.schema \cup tx[c].schema]

\* what a transaction that reads t has written
Writes(t) ==
    [exists |-> t.exists /\ ~db.exists,
     rows |-> t.rows \ db.rows,
     schema |-> t.schema \ db.schema]

\* CREATE TABLE IF NOT EXISTS waits for the other transaction's CREATE
setup_table_waits(c) == ~db.exists /\ tx[Other(c)].exists

\* up_sql waits for the other transaction's CREATE of the same table, the
\* INSERT for the other transaction's row with the same (group_name, version)
migrate_one_waits(c, changeset) ==
    \/ setup_table_waits(c)
    \/ /\ SqlStatement[changeset.up_sql][1] = "create"
       /\ SqlStatement[changeset.up_sql][2] \in tx[Other(c)].schema
    \/ \E r \in tx[Other(c)].rows :
          r.group_name = input.group_name /\ r.version = changeset.name.version

Committed(c, issued) ==
    [i \in 1..Len(issued) |->
        [conn |-> c, stmt |-> issued[i].stmt, version |-> issued[i].version]]

InitConcurrent ==
    /\ db \in {EmptyDatabase, setup_table(EmptyDatabase)}
    /\ tx = [c \in Connections |-> EmptyDatabase]
    /\ pc = [c \in Connections |-> "idle"]
    /\ call = NoCall
    /\ todo = [c \in Connections |-> <<>>]
    /\ result = [c \in Connections |-> Ok]
    /\ pre = db
    /\ log = [c \in Connections |-> <<>>]
    /\ before = None
    /\ resynced = None
    /\ input \in ConcurrentInputs
    /\ output = <<>>

\* connection c returns Err: its transaction is dropped
concurrent_err(c, res, issued) ==
    /\ pc' = [pc EXCEPT ![c] = "done"]
    /\ result' = [result EXCEPT ![c] = res]
    /\ db' = drop_transaction(db, View(c))
    /\ tx' = [tx EXCEPT ![c] = EmptyDatabase]
    /\ todo' = [todo EXCEPT ![c] = <<>>]
    /\ log' = [log EXCEPT ![c] = @ \o issued]
    /\ output' = output

\* client.transaction(), then migrate_postgres up to its loop
concurrent_migrate(c) ==
    /\ pc[c] = "idle"
    /\ ~setup_table_waits(c)
    /\ LET begun == migrate_postgres(View(c), input, None)
       IN  IF begun.res = Ok
           THEN /\ pc' = [pc EXCEPT ![c] = "migrate"]
                /\ tx' = [tx EXCEPT ![c] = Writes(begun.tx)]
                /\ todo' = [todo EXCEPT ![c] = begun.todo]
                /\ UNCHANGED <<db, result, log, output>>
           ELSE concurrent_err(c, begun.res, <<>>)
    /\ UNCHANGED <<call, pre, before, resynced, input>>

\* one pass of the loop of migrate_postgres: migrate_one
concurrent_migrate_loop(c) ==
    /\ pc[c] = "migrate"
    /\ todo[c] # <<>>
    /\ ~migrate_one_waits(c, Head(todo[c]))
    /\ \E fault \in BOOLEAN :
         LET one == migrate_one(View(c), input.group_name, Head(todo[c]), fault)
         IN  IF one.ok
             THEN /\ tx' = [tx EXCEPT ![c] = Writes(one.tx)]
                  /\ todo' = [todo EXCEPT ![c] = Tail(@)]
                  /\ log' = [log EXCEPT ![c] = @ \o one.log]
                  /\ UNCHANGED <<db, pc, result, output>>
             ELSE concurrent_err(c, PostgresError, one.log)
    /\ UNCHANGED <<call, pre, before, resynced, input>>

\* transaction.commit(), which the executor may fail
concurrent_migrate_commit(c) ==
    /\ pc[c] = "migrate"
    /\ todo[c] = <<>>
    /\ \E fault \in BOOLEAN :
         IF fault
         THEN concurrent_err(c, PostgresError, << Statement("commit", 0, "", FALSE) >>)
         ELSE /\ pc' = [pc EXCEPT ![c] = "done"]
              /\ result' = [result EXCEPT ![c] = Ok]
              /\ db' = commit_transaction(db, View(c))
              /\ tx' = [tx EXCEPT ![c] = EmptyDatabase]
              /\ todo' = [todo EXCEPT ![c] = <<>>]
              /\ log' = [log EXCEPT ![c] = Append(@, Statement("commit", 0, "", TRUE))]
              /\ output' = output \o Committed(c, log[c])
    /\ UNCHANGED <<call, pre, before, resynced, input>>

NextConcurrent ==
    \/ \E c \in Connections : concurrent_migrate(c)
    \/ \E c \in Connections : concurrent_migrate_loop(c)
    \/ \E c \in Connections : concurrent_migrate_commit(c)

SpecConcurrent == InitConcurrent /\ [][NextConcurrent]_vars

-----------------------------------------------------------------------------
(* changeset.rs: the loader.  A filename is a sequence of characters and a  *)
(* file's content a sequence of bytes, so that matching, parsing and        *)
(* decoding are computed and not assumed.                                   *)

\* the files a listing holds at most
MaxFiles == 3

\* i32::MAX
I32Max == 2147483647

\* the decimal digits and their values
Digit ==
    [c \in {"0", "1", "2", "3", "4", "5", "6", "7", "8", "9"} |->
        CASE c = "0" -> 0 [] c = "1" -> 1 [] c = "2" -> 2 [] c = "3" -> 3
          [] c = "4" -> 4 [] c = "5" -> 5 [] c = "6" -> 6 [] c = "7" -> 7
          [] c = "8" -> 8 [] c = "9" -> 9]

\* a continuation byte 10xxxxxx
Continuation(b) == 128 <= b /\ b <= 191

\* str::from_utf8(data).is_ok(), from byte i on
RECURSIVE from_utf8(_, _)
from_utf8(data, i) ==
    IF i > Len(data) THEN TRUE
    ELSE LET b == data[i]
             has(k) == i + k <= Len(data)
         IN  IF b <= 127 THEN from_utf8(data, i + 1)
             ELSE IF 194 <= b /\ b <= 223
             THEN has(1) /\ Continuation(data[i + 1]) /\ from_utf8(data, i + 2)
             ELSE IF 224 <= b /\ b <= 239
             THEN /\ has(2)
                  /\ Continuation(data[i + 1])
                  /\ b = 224 => data[i + 1] >= 160
                  /\ b = 237 => data[i + 1] <= 159
                  /\ Continuation(data[i + 2])
                  /\ from_utf8(data, i + 3)
             ELSE IF 240 <= b /\ b <= 244
             THEN /\ has(3)
                  /\ Continuation(data[i + 1])
                  /\ b = 240 => data[i + 1] >= 144
                  /\ b = 244 => data[i + 1] <= 143
                  /\ Continuation(data[i + 2])
                  /\ Continuation(data[i + 3])
                  /\ from_utf8(data, i + 4)
             ELSE FALSE

\* Result::unwrap() on the Err of str::from_utf8
Utf8Panic == [kind |-> "panic", msg |-> "unwrap on Utf8Error", local |-> 0, database |-> 0]

\* Result::unwrap() on the Err of str::parse::<i32>
ParseIntPanic == [kind |-> "panic", msg |-> "unwrap on ParseIntError", local |-> 0, database |-> 0]

\* From<std::io::Error>
IoError == [kind |-> "IoError", msg |-> "", local |-> 0, database |-> 0]

\* From<std::str::Utf8Error>
Utf8Error == [kind |-> "Utf8Error", msg |-> "", local |-> 0, database |-> 0]

\* From<num::ParseIntError>
ParseIntError == [kind |-> "ParseIntError", msg |-> "", local |-> 0, database |-> 0]

\* str::parse::<i32>() of a digit run from digit i on: None when the value
\* leaves the i32 range (checked multiply by 10, checked add of the digit)
RECURSIVE parse_i32(_, _, _)
parse_i32(digits, i, acc) ==
    IF i > Len(digits) THEN Some(acc)
    ELSE LET d == Digit[digits[i]]
         IN  IF acc > (I32Max - d) \div 10
             THEN None
             ELSE parse_i32(digits, i + 1, acc * 10 + d)

\* the length of the longest run of digits that starts at index i: (\d+)
RECURSIVE digit_run(_, _)
digit_run(name, i) ==
    IF i <= Len(name) /\ name[i] \in DOMAIN Digit
    THEN 1 + digit_run(name, i + 1)
    ELSE 0

\* Regex::captures for ^(\d+)__(.{min,})<tail>.sql$ : the two groups, or None.
\* The dot before sql is unescaped and matches any character but a newline.
captures(name, tail, min) ==
    LET d == digit_run(name, 1)
        last == Len(name) - Len(tail) - 4
    IN  IF /\ d >= 1
           /\ last - (d + 2) >= min
           /\ SubSeq(name, d + 1, d + 2) = <<"_", "_">>
           /\ \A k \in (d + 3)..last : name[k] # "\n"
           /\ SubSeq(name, last + 1, last + Len(tail)) = tail
           /\ name[last + Len(tail) + 1] # "\n"
           /\ SubSeq(name, Len(name) - 2, Len(name)) = <<"s", "q", "l">>
        THEN Some(<<SubSeq(name, 1, d), SubSeq(name, d + 3, last)>>)
        ELSE None

\* UP_NAME: ^(\d+)__(.+)__up.sql$
UP_NAME(name) == captures(name, <<"_", "_", "u", "p">>, 1)

\* DOWN_NAME: ^(\d+)__(.*)__down.sql$
DOWN_NAME(name) == captures(name, <<"_", "_", "d", "o", "w", "n">>, 0)

\* ParsedName::parse: [res: Ok or the panic of unwrap, parsed: the Option]
parse(name) ==
    LET cap == IF UP_NAME(name) # None THEN UP_NAME(name) ELSE DOWN_NAME(name)
        kind == IF UP_NAME(name) # None THEN "Up" ELSE "Down"
    IN  IF cap = None
        THEN [res |-> Ok, parsed |-> None]
        ELSE LET version == parse_i32(cap[1][1], 1, 0)
             IN  IF version = None
                 THEN [res |-> ParseIntPanic, parsed |-> None]
                 ELSE [res |-> Ok,
                       parsed |-> Some([kind |-> kind,
                                        name |-> ChangeSetVersionName(version[1], cap[1][2])])]

\* Path::file_name: what follows the last "/"
file_name(path) ==
    LET slashes == { i \in 1..Len(path) : path[i] = "/" }
        from == IF slashes = {} THEN 1
                ELSE 1 + CHOOSE i \in slashes : \A j \in slashes : j <= i
    IN  SubSeq(path, from, Len(path))

\* a file of a listing: its path and what get_data returns for it, Some(bytes)
\* or None for an io::Error
File(path, data) == [path |-> path, data |-> data]

get_data(entry) == entry.data

\* HashMap::insert: the value of an existing key is replaced
insert(map, k, v) == [x \in DOMAIN map \cup {k} |-> IF x = k THEN v ELSE map[x]]

\* the for loop of load from entry i on: the two maps, or the first failure
RECURSIVE load_scan(_, _, _, _)
load_scan(filenames, i, up_sql, down_sql) ==
    IF i > Len(filenames)
    THEN [res |-> Ok, up_sql |-> up_sql, down_sql |-> down_sql]
    ELSE LET entry == filenames[i]
             name == parse(file_name(entry.path))
             failed(res) == [res |-> res, up_sql |-> up_sql, down_sql |-> down_sql]
         IN  IF name.res # Ok THEN failed(name.res)
             ELSE IF name.parsed = None
             THEN load_scan(filenames, i + 1, up_sql, down_sql)
             ELSE LET x == name.parsed[1].name
                      data == get_data(entry)
                  IN  IF data = None THEN failed(IoError)
                      ELSE IF ~from_utf8(data[1], 1) THEN failed(Utf8Panic)
                      ELSE IF name.parsed[1].kind = "Up"
                      THEN load_scan(filenames, i + 1,
                                     insert(up_sql, x.version, <<x, data[1]>>), down_sql)
                      ELSE load_scan(filenames, i + 1,
                                     up_sql, insert(down_sql, x.version, <<x, data[1]>>))

\* the orders in which a HashMap may yield its keys
Orders(keys) ==
    { order \in [1..Cardinality(keys) -> keys] :
        \A i, j \in 1..Cardinality(keys) : i # j => order[i] # order[j] }

\* a collect that attaches no down file
collect_no_down(up_sql, down_sql, order) ==
    [i \in 1..Len(order) |->
        [name |-> up_sql[order[i]][1], up_sql |-> up_sql[order[i]][2], down_sql |-> None]]

\* a collect that attaches a down file only when its name is the up file's
collect_pairs_by_name(up_sql, down_sql, order) ==
    [i \in 1..Len(order) |->
        LET k == order[i]
            v == up_sql[k]
        IN  [name |-> v[1],
             up_sql |-> v[2],
             down_sql |-> IF k \in DOMAIN down_sql /\ down_sql[k][1] = v[1]
                          THEN Some(down_sql[k][2]) ELSE None]]

\* up_sql.into_iter().map(..).collect(), the map yielding its keys in `order`
collect(up_sql, down_sql, order) ==
    [i \in 1..Len(order) |->
        LET k == order[i]
            v == up_sql[k]
        IN  [name |-> v[1],
             up_sql |-> v[2],
             down_sql |-> IF k \in DOMAIN down_sql THEN Some(down_sql[k][2]) ELSE None]]

\* a sort that leaves the vector as it was collected
sort_keeps_order(change_sets) == change_sets

\* change_sets.sort(): Ord of ChangeSet compares name.version first, and the
\* versions of the collected change sets are distinct keys of the map
RECURSIVE sort(_)
sort(change_sets) ==
    IF change_sets = <<>> THEN <<>>
    ELSE LET least == CHOOSE i \in 1..Len(change_sets) :
                          \A j \in 1..Len(change_sets) :
                              change_sets[i].name.version <= change_sets[j].name.version
         IN  <<change_sets[least]>> \o
             sort([k \in 1..(Len(change_sets) - 1) |->
                      IF k < least THEN change_sets[k] ELSE change_sets[k + 1]])

\* load: [res: Ok, the Err or the panic, sets: the Ok value]
load(name, filenames, order) ==
    LET maps == load_scan(filenames, 1, <<>>, <<>>)
    IN  IF maps.res # Ok
        THEN [res |-> maps.res, sets |-> MigrationChangeSets(name, <<>>)]
        ELSE [res |-> Ok,
              sets |-> MigrationChangeSets(name,
                           sort(collect(maps.up_sql, maps.down_sql, order)))]

\* the names of the files: <digits>__<name>__up.sql and __down.sql
UpFile(digits, name) == digits \o <<"_", "_">> \o name \o <<"_", "_", "u", "p", ".", "s", "q", "l">>

DownFile(digits, name) ==
    digits \o <<"_", "_">> \o name \o <<"_", "_", "d", "o", "w", "n", ".", "s", "q", "l">>

\* the files a directory or an asset bundle may hold
Files ==
    { File(UpFile(<<"0", "0", "1">>, <<"a">>), Some(<<65>>)),
      File(UpFile(<<"1">>, <<"b">>), Some(<<66>>)),
      File(DownFile(<<"1">>, <<"a">>), Some(<<67>>)),
      File(UpFile(<<"1", "0">>, <<"c">>), Some(<<195, 169>>)),
      File(DownFile(<<"1", "0">>, <<"c">>), Some(<<195>>)),
      File(UpFile(<<"1", "1">>, <<"d">>), Some(<<255>>)),
      File(DownFile(<<"1", "1">>, <<"e">>), None),
      File(UpFile(<<"9", "9", "9", "9", "9", "9", "9", "9", "9", "9", "9">>, <<"x">>),
           Some(<<68>>)),
      File(DownFile(<<"2", "1", "4", "7", "4", "8", "3", "6", "4", "8">>, <<"y">>),
           Some(<<69>>)),
      File(UpFile(<<"2", "1", "4", "7", "4", "8", "3", "6", "4", "7">>, <<"z">>),
           Some(<<70>>)),
      File(<<"R", "E", "A", "D", "M", "E">>, Some(<<71>>)),
      File(<<"1", "_", "_", "a", "_", "_", "u", "p", "X", "s", "q", "l">>, Some(<<72>>)),
      File(DownFile(<<"1", "0">>, <<>>), Some(<<73>>)),
      File(<<".", "/", "s", "/">> \o UpFile(<<"2">>, <<"e">>), Some(<<74>>)),
      File(<<".", "/", "s", "/">> \o DownFile(<<"2">>, <<"f">>), Some(<<75>>)) }

\* the listings of up to n distinct files, in the order they are iterated
RECURSIVE Listings(_)
Listings(n) ==
    IF n = 0 THEN { <<>> }
    ELSE LET shorter == Listings(n - 1)
             longest == { l \in shorter : Len(l) = n - 1 }
         IN  shorter \cup
             { Append(q[1], q[2]) :
                 q \in { p \in longest \X Files :
                           \A i \in 1..Len(p[1]) : p[1][i] # p[2] } }

LoadInputs == Listings(MaxFiles)

InitLoad ==
    /\ db = EmptyDatabase
    /\ tx = EmptyDatabase
    /\ pc = "load"
    /\ call = NoCall
    /\ todo = <<>>
    /\ result = Ok
    /\ pre = EmptyDatabase
    /\ log = <<>>
    /\ before = None
    /\ resynced = None
    /\ input \in LoadInputs
    /\ output = <<>>

\* MigrationChangeSets::load(name, filenames, get_data)
load_call ==
    /\ pc = "load"
    /\ \E order \in Orders(DOMAIN load_scan(input, 1, <<>>, <<>>).up_sql) :
          output' = load(GroupName, input, order)
    /\ pc' = "loaded"
    /\ UNCHANGED <<db, tx, call, todo, result, pre, log, before, resynced, input>>

NextLoad == load_call

SpecLoad == InitLoad /\ [][NextLoad]_vars

-----------------------------------------------------------------------------
(* asyncmigrate-cli, commands/redo.rs: RedoCommand::run on a database that  *)
(* earlier migrate calls have filled.  `input` is the configuration and the *)
(* arguments group_name and count; `output` holds the phase of the command, *)
(* the database when it started, the position of its for loop, the calls it *)
(* has made and the value run returned.                                     *)

\* the collections of the group the command is run for
RedoLocals == { x \in GroupInputs : x.group_name = GroupName }

\* config.changesets: the group alone, after another group, or missing
RedoConfigs ==
    LET other == [group_name |-> "default", loaded |-> None]
    IN  { <<a>> : a \in ConfigSets(GroupName) } \cup
        { <<other, a>> : a \in ConfigSets(GroupName) } \cup
        { <<other>> }

\* the arguments: group_name is required, count parses to a usize
RedoInputs ==
    [changesets : RedoConfigs, group_name : {Some(GroupName)}, count : {1, 2}]

InitRedo ==
    /\ db = EmptyDatabase
    /\ tx = EmptyDatabase
    /\ pc = "idle"
    /\ call = NoCall
    /\ todo = <<>>
    /\ result = Ok
    /\ pre = EmptyDatabase
    /\ log = <<>>
    /\ before = None
    /\ resynced = None
    /\ input \in RedoInputs
    /\ output = [phase |-> "before", start |-> EmptyDatabase, next |-> 1,
                 runs |-> <<>>, exit |-> None]

\* an earlier migrate call on the connection
redo_before_migrate ==
    /\ output.phase = "before"
    /\ \E changesets \in RedoLocals : migrate(changesets, None)

\* the earlier call has returned; the connection is closed with the process
redo_before_return ==
    /\ output.phase = "before"
    /\ pc = "done"
    /\ pc' = "idle"
    /\ call' = NoCall
    /\ result' = Ok
    /\ pre' = db
    /\ log' = <<>>
    /\ UNCHANGED <<db, tx, todo, before, resynced, input, output>>

\* run starts: load_config, connect, count parsed
redo_run ==
    /\ output.phase = "before"
    /\ pc = "idle"
    /\ output' = [output EXCEPT !.phase = "rollback", !.start = db]
    /\ UNCHANGED <<db, tx, pc, call, todo, result, pre, log, before, resynced, input>>

\* connect.rollback(group_name, Some(count))
redo_rollback ==
    /\ output.phase = "rollback"
    /\ rollback(input.group_name[1], Some(input.count))

\* the call a phase made has returned
redo_returned ==
    [index |-> output.next, op |-> call.op, result |-> result, pre |-> pre, post |-> db]

\* .await? after rollback: the Err, or on to the for loop
redo_rollback_next ==
    /\ output.phase = "rollback"
    /\ pc = "done"
    /\ output' = [output EXCEPT
                     !.phase = IF question_mark(result) = None THEN "migrate" ELSE "exit",
                     !.runs = Append(@, redo_returned),
                     !.exit = question_mark(result)]
    /\ pc' = IF question_mark(result) = None THEN "idle" ELSE "exit"
    /\ call' = NoCall
    /\ result' = Ok
    /\ pre' = db
    /\ log' = <<>>
    /\ before' = None
    /\ resynced' = None
    /\ UNCHANGED <<db, tx, todo, input>>

\* the body of the for loop up to the call of connect.migrate
redo_group ==
    /\ output.phase = "migrate"
    /\ pc = "idle"
    /\ output.next <= Len(input.changesets)
    /\ LET one_change_sets == input.changesets[output.next]
       IN  IF input.group_name[1] # one_change_sets.group_name
           THEN /\ output' = [output EXCEPT !.next = @ + 1]
                /\ UNCHANGED <<db, tx, pc, call, todo, result, pre, log, before,
                               resynced, input>>
           ELSE IF one_change_sets.loaded = None
           THEN /\ output' = [output EXCEPT !.phase = "exit", !.exit = Some(IoError)]
                /\ pc' = "exit"
                /\ UNCHANGED <<db, tx, call, todo, result, pre, log, before,
                               resynced, input>>
           ELSE migrate(one_change_sets.loaded[1], Some(input.count))

\* .await? after migrate: the Err, or the next entry of the configuration
redo_next ==
    /\ output.phase = "migrate"
    /\ pc = "done"
    /\ output' = [output EXCEPT
                     !.phase = IF question_mark(result) = None THEN "migrate" ELSE "exit",
                     !.next = @ + 1,
                     !.runs = Append(@, redo_returned),
                     !.exit = question_mark(result)]
    /\ pc' = IF question_mark(result) = None THEN "idle" ELSE "exit"
    /\ call' = NoCall
    /\ result' = Ok
    /\ pre' = db
    /\ log' = <<>>
    /\ before' = None
    /\ resynced' = None
    /\ UNCHANGED <<db, tx, todo, input>>

\* the for loop is over: Ok(())
redo_exit ==
    /\ output.phase = "migrate"
    /\ pc = "idle"
    /\ output.next > Len(input.changesets)
    /\ output' = [output EXCEPT !.phase = "exit", !.exit = Some(Ok)]
    /\ pc' = "exit"
    /\ UNCHANGED <<db, tx, call, todo, result, pre, log, before, resynced, input>>

NextRedo ==
    \/ redo_before_migrate
    \/ redo_before_return
    \/ redo_run
    \/ redo_rollback
    \/ rollback_loop
    \/ rollback_commit
    \/ redo_rollback_next
    \/ redo_group
    \/ migrate_loop
    \/ migrate_commit
    \/ redo_next
    \/ redo_exit

SpecRedo == InitRedo /\ [][NextRedo]_vars

-----------------------------------------------------------------------------
(* tokio_postgres.rs: a rollback that follows an update_rollback_sql on a   *)
(* table that earlier migrate calls have filled.  `output` holds the phase  *)
(* of the sequence and, once update_rollback_sql has returned, the database *)
(* before it, the collection it was given and its result.                   *)

InitResync ==
    /\ db = EmptyDatabase
    /\ tx = EmptyDatabase
    /\ pc = "idle"
    /\ call = NoCall
    /\ todo = <<>>
    /\ result = Ok
    /\ pre = EmptyDatabase
    /\ log = <<>>
    /\ before = None
    /\ resynced = None
    /\ input = <<>>
    /\ output = [phase |-> "before", old |-> EmptyDatabase,
                 local |-> MigrationChangeSets(GroupName, <<>>), result |-> Ok]

\* an earlier migrate call on the connection
resync_migrate ==
    /\ output.phase = "before"
    /\ \E changesets \in RedoLocals : migrate(changesets, None)

\* the earlier migrate call has returned
resync_migrate_return ==
    /\ output.phase = "before"
    /\ pc = "done"
    /\ call.op = "migrate"
    /\ pc' = "idle"
    /\ call' = NoCall
    /\ result' = Ok
    /\ pre' = db
    /\ log' = <<>>
    /\ UNCHANGED <<db, tx, todo, before, resynced, input, output>>

\* update_rollback_sql(changesets)
resync_update ==
    /\ output.phase = "before"
    /\ \E changesets \in RedoLocals : update_rollback_sql(changesets)

\* update_rollback_sql has returned: the caller has its Result
resync_update_return ==
    /\ output.phase = "before"
    /\ pc = "done"
    /\ call.op = "update_rollback_sql"
    /\ output' = [phase |-> "rollback", old |-> pre, local |-> call.changesets,
                  result |-> result]
    /\ pc' = "idle"
    /\ call' = NoCall
    /\ result' = Ok
    /\ pre' = db
    /\ log' = <<>>
    /\ UNCHANGED <<db, tx, todo, before, resynced, input>>

\* rollback(group_name, count), the next call on the connection
resync_rollback ==
    /\ output.phase = "rollback"
    /\ \E count \in {None, Some(1), Some(2)} : rollback(GroupName, count)

NextResync ==
    \/ resync_migrate
    \/ migrate_loop
    \/ migrate_commit
    \/ resync_migrate_return
    \/ resync_update
    \/ update_rollback_sql_loop
    \/ update_rollback_sql_commit
    \/ resync_update_return
    \/ resync_rollback
    \/ rollback_loop
    \/ rollback_commit

SpecResync == InitResync /\ [][NextResync]_vars

-----------------------------------------------------------------------------
(* changeset.rs: the derived PartialEq and Ord of ChangeSetVersionName *)

\* the bytes of the characters the names are written with
CharCode ==
    [c \in {"a", "b", "f", "o", "r"} |->
        CASE c = "a" -> 97 [] c = "b" -> 98 [] c = "f" -> 102
          [] c = "o" -> 111 [] c = "r" -> 114]

\* i32::cmp
i32_cmp(a, b) == IF a < b THEN "Less" ELSE IF a > b THEN "Greater" ELSE "Equal"

\* String::cmp from byte i on: the first differing byte decides, then the length
RECURSIVE str_cmp(_, _, _)
str_cmp(a, b, i) ==
    IF i > Len(a) /\ i > Len(b) THEN "Equal"
    ELSE IF i > Len(a) THEN "Less"
    ELSE IF i > Len(b) THEN "Greater"
    ELSE IF CharCode[a[i]] # CharCode[b[i]]
    THEN i32_cmp(CharCode[a[i]], CharCode[b[i]])
    ELSE str_cmp(a, b, i + 1)

\* an Ord that compares the names before the versions
cmp_name_first(a, b) ==
    IF str_cmp(a.name, b.name, 1) # "Equal"
    THEN str_cmp(a.name, b.name, 1)
    ELSE i32_cmp(a.version, b.version)

\* #[derive(Ord)]: the fields in the order they are declared, version then name
cmp(a, b) ==
    IF i32_cmp(a.version, b.version) # "Equal"
    THEN i32_cmp(a.version, b.version)
    ELSE str_cmp(a.name, b.name, 1)

\* #[derive(PartialEq)]: every field is equal
eq(a, b) == a.version = b.version /\ a.name = b.name

\* the values of tests::test_version_compare, and names of which one is a
\* prefix of another
VersionNames ==
    { ChangeSetVersionName(version, name) :
        version \in {100, 101, 110, 111, 200},
        name \in { <<"f", "o", "o">>, <<"b", "a", "r">>, <<"b", "a">>, <<>> } }

InitOrd ==
    /\ db = EmptyDatabase
    /\ tx = EmptyDatabase
    /\ pc = "cmp"
    /\ call = NoCall
    /\ todo = <<>>
    /\ result = Ok
    /\ pre = EmptyDatabase
    /\ log = <<>>
    /\ before = None
    /\ resynced = None
    /\ input \in VersionNames \X VersionNames
    /\ output = <<>>

\* a.cmp(&b) and a == b
cmp_call ==
    /\ pc = "cmp"
    /\ output' = [ord |-> cmp(input[1], input[2]), eq |-> eq(input[1], input[2])]
    /\ pc' = "compared"
    /\ UNCHANGED <<db, tx, call, todo, result, pre, log, before, resynced, input>>

NextOrd == cmp_call

SpecOrd == InitOrd /\ [][NextOrd]_vars

----------------------------------------------------------------------------
(* Properties *)

Done(op) == pc = "done" /\ call.op = op

\* the group's tracking rows as load_migration_set returns them
Applied(d) == query_change_sets(d, call.changesets.group_name).change_sets

Local == call.changesets.change_sets

Issued(stmt) == { i \in 1..Len(log) : log[i].stmt = stmt }

\* C1: a migrate that fails at a change set of its plan (its up_sql or its
\* insert fails) commits nothing: the committed tracking table and schema are
\* those of before the call, also for the change sets already applied in the call.
C1_MigrateFailureCommitsNothing ==
    (Done("migrate") /\ result # Ok) => db = pre

\* a migrate whose second change set's up_sql failed after the first was applied
C1_Witness ==
    /\ Done("migrate")
    /\ result = PostgresError
    /\ Len(log) = 3
    /\ log[1].stmt = "batch_execute" /\ log[1].ok
    /\ log[2].stmt = "insert" /\ log[2].ok
    /\ log[3].stmt = "batch_execute" /\ ~log[3].ok

IsPrefix(p, s) == Len(p) <= Len(s) /\ \A i \in 1..Len(p) : p[i] = s[i]

\* C2: when the applied rows are an exact prefix of local, a successful
\* migrate(local, count) leaves the rows equal to local[0 .. len(applied)+n],
\* n = count when given, the number of pending change sets otherwise.
C2_MigrateAppliesPlan ==
    (Done("migrate") /\ result = Ok /\ IsPrefix(Applied(pre), Local)) =>
        LET n == IF call.count = None
                 THEN Len(Local) - Len(Applied(pre))
                 ELSE call.count[1]
        IN  /\ Applied(db) = SubSeq(Local, 1, Len(Applied(pre)) + n)
            /\ { r \in db.rows : r.group_name = call.changesets.group_name } =
               { TrackingRow(call.changesets.group_name, Local[i]) :
                     i \in 1..(Len(Applied(pre)) + n) }

\* a committed migrate with a count below the number of pending change sets
C2_Witness ==
    /\ Done("migrate")
    /\ result = Ok
    /\ call.count # None
    /\ call.count[1] >= 1
    /\ call.count[1] < Len(Local) - Len(Applied(pre))

\* local and applied differ at an index of the common part, or applied is longer
Mismatch(local, applied) ==
    \/ \E i \in 1..Min(Len(local), Len(applied)) : local[i] # applied[i]
    \/ Len(local) < Len(applied)

\* C3: when diff(local, applied) fails (version, name, up_sql or down_sql
\* mismatch, or history ahead of the local files) migrate returns that error,
\* executes no up_sql and inserts no tracking row.
C3_DiffFailureAppliesNothing ==
    (Done("migrate") /\ Mismatch(Local, Applied(pre))) =>
        /\ result.kind \in {"VersionMismatchError", "InconsistentMigrationError"}
        /\ result = calc_diff(call.changesets,
                              MigrationChangeSets(call.changesets.group_name,
                                                  Applied(pre))).res
        /\ log = <<>>
        /\ db = pre

\* a migrate refused for a down SQL mismatch while change sets were pending
C3_Witness ==
    /\ Done("migrate")
    /\ result.msg = "Down SQL mismatch"
    /\ Len(Local) > Len(Applied(pre))
    /\ Applied(pre) # <<>>

\* C4: a successful rollback(group, count) removes exactly the n highest-version
\* rows, n = count when given and len(applied) otherwise; the rows that remain
\* are applied[0 .. len(applied)-n], unchanged.
C4_RollbackRemovesHighest ==
    (Done("rollback") /\ result = Ok) =>
        LET n == IF call.count = None THEN Len(Applied(pre)) ELSE call.count[1]
        IN  /\ n <= Len(Applied(pre))
            /\ Applied(db) = SubSeq(Applied(pre), 1, Len(Applied(pre)) - n)
            /\ db.rows \subseteq pre.rows
            /\ call.count = Some(1) =>
                   pre.rows \ db.rows =
                   { TrackingRow(call.changesets.group_name,
                                 Applied(pre)[Len(Applied(pre))]) }
            /\ call.count = None =>
                   { r \in db.rows : r.group_name = call.changesets.group_name } = {}

\* a committed rollback of one change set out of two
C4_Witness ==
    /\ Done("rollback")
    /\ result = Ok
    /\ call.count = Some(1)
    /\ Len(Applied(pre)) = 2
    /\ Len(Applied(db)) = 1

\* C5: rollback(group, Some(count)) with count above the number of applied
\* change sets fails with "No change sets to revert", deletes no row and
\* executes no down_sql; count equal to that number is accepted.
C5_RollbackCountTooLarge ==
    (Done("rollback") /\ call.count # None) =>
        IF call.count[1] > Len(Applied(pre))
        THEN /\ result = OtherError("No change sets to revert")
             /\ log = <<>>
             /\ db = pre
        ELSE result # OtherError("No change sets to revert")

\* a rollback refused for asking one more than the applied change sets
C5_Witness ==
    /\ Done("rollback")
    /\ call.count # None
    /\ Len(Applied(pre)) >= 1
    /\ call.count[1] = Len(Applied(pre)) + 1
    /\ result = OtherError("No change sets to revert")

\* C6: when rollback reverts a change set whose stored down_sql is absent, the
\* step deletes its tracking row and issues no other statement: the schema is
\* left as it is and the rollback goes on (it ends only if the DELETE fails).
C6_AbsentDownSqlOnlyForgets ==
    [][ (pc = "rollback" /\ todo # <<>> /\ Head(todo).down_sql = None) =>
          LET version == Head(todo).name.version
              row == TrackingRow(call.changesets.group_name, Head(todo))
          IN  \/ /\ pc' = "rollback"
                 /\ todo' = Tail(todo)
                 /\ row \in tx.rows
                 /\ tx'.rows = tx.rows \ {row}
                 /\ tx'.schema = tx.schema
                 /\ log' = Append(log, Statement("delete", version, "", TRUE))
              \/ /\ pc' = "done"
                 /\ result' = PostgresError
                 /\ log' = Append(log, Statement("delete", version, "", FALSE))
                 /\ db' = db ]_vars

\* the row of a change set without down_sql is gone, its table is still there
C6_Witness ==
    /\ pc = "rollback"
    /\ Len(log) = 1
    /\ log[1] = Statement("delete", log[1].version, "", TRUE)
    /\ \E row \in pre.rows :
          /\ row.version = log[1].version
          /\ row.down_sql = None
          /\ row \notin tx.rows
          /\ SqlStatement[row.up_sql][2] \in tx.schema
    /\ tx.schema = pre.schema

\* C7: a rollback that fails (a down_sql or a row delete fails) commits
\* nothing: the rows deleted and the down_sql executed earlier in the call are
\* undone, the tracking table and the schema are those of before the call.
C7_RollbackFailureCommitsNothing ==
    (Done("rollback") /\ result # Ok) => db = pre

\* a rollback whose second down_sql failed after the first had run
C7_Witness ==
    /\ Done("rollback")
    /\ result = PostgresError
    /\ Len(log) = 4
    /\ log[1].stmt = "delete" /\ log[1].ok
    /\ log[2].stmt = "batch_execute" /\ log[2].ok
    /\ log[3].stmt = "delete" /\ log[3].ok
    /\ log[4].stmt = "batch_execute" /\ ~log[4].ok

\* a committed rollback(group, count) right after a committed
\* migrate(local, count) that found the tracking table empty
RoundTrip == Done("rollback") /\ result = Ok /\ before = Some(call.count)

\* the indexes, highest first, of the applied change sets that have a down_sql
RECURSIVE WithDownDescending(_, _)
WithDownDescending(applied, i) ==
    IF i = 0 THEN <<>>
    ELSE IF applied[i].down_sql = None
    THEN WithDownDescending(applied, i - 1)
    ELSE <<i>> \o WithDownDescending(applied, i - 1)

BatchExecuted == SelectSeq(log, LAMBDA e : e.stmt = "batch_execute")

\* C8 as stated: after the round trip the tracking table is empty and every
\* table created by an applied up_sql whose change set has a down_sql is absent.
C8_AsStated ==
    RoundTrip =>
        /\ Applied(db) = <<>>
        /\ \A i \in 1..Len(Applied(pre)) :
              Applied(pre)[i].down_sql # None =>
                  SqlStatement[Applied(pre)[i].up_sql][2] \notin db.schema

\* C8 amended: after the round trip the tracking table is empty and the stored
\* down_sql of every applied change set that has one was executed, once, in
\* descending version order; a table is absent again when the down_sql of the
\* change set that created it is the script that drops it.
C8_RoundTripRunsDownSql ==
    RoundTrip =>
        LET applied == Applied(pre)
            downs == WithDownDescending(applied, Len(applied))
        IN  /\ Applied(db) = <<>>
            /\ BatchExecuted =
                  [k \in 1..Len(downs) |->
                      Statement("batch_execute", applied[downs[k]].name.version,
                                applied[downs[k]].down_sql[1], TRUE)]
            /\ \A i \in 1..Len(applied) :
                  LET created == SqlStatement[applied[i].up_sql][2]
                  IN  ( /\ applied[i].down_sql # None
                        /\ SqlStatement[applied[i].down_sql[1]] = <<"drop", created>> )
                      => created \notin db.schema

\* two change sets migrated and rolled back, both tables dropped again
C8_Witness ==
    /\ RoundTrip
    /\ call.count = Some(2)
    /\ Len(Applied(pre)) = 2
    /\ pre.schema = Tables
    /\ db.schema = {}

Identity(rows) ==
    { [group_name |-> r.group_name, version |-> r.version,
       name |-> r.name, up_sql |-> r.up_sql] : r \in rows }

\* C9: update_rollback_sql executes no up_sql and no down_sql, inserts and
\* deletes no tracking row and changes no group_name, version, name or up_sql:
\* nothing but the stored down_sql can change.
C9_UpdateRollbackSqlFrame ==
    call.op = "update_rollback_sql" =>
        /\ \A d \in {tx, db} :
              /\ Identity(d.rows) = Identity(pre.rows)
              /\ Cardinality(d.rows) = Cardinality(pre.rows)
              /\ d.schema = pre.schema
        /\ \A i \in 1..Len(log) : log[i].stmt \in {"update", "commit"}

\* a committed update_rollback_sql that changed a stored down_sql
C9_Witness ==
    /\ Done("update_rollback_sql")
    /\ result = Ok
    /\ db.rows # pre.rows

\* the indexes of the common part at which local and applied differ in down_sql
DownDiffers(local, applied) ==
    { i \in 1..Min(Len(local), Len(applied)) : local[i].down_sql # applied[i].down_sql }

\* C10: after a successful update_rollback_sql(local) the stored down_sql of
\* applied[i] is local[i].down_sql at every index of the common part (absent
\* when the local one is absent); only the rows that differed are rewritten,
\* the rows beyond len(local) keep theirs, and a local shorter than applied
\* is no error.
C10_UpdateRollbackSqlResult ==
    /\ (Done("update_rollback_sql") /\ result = Ok) =>
          /\ Len(Applied(db)) = Len(Applied(pre))
          /\ \A i \in 1..Min(Len(Local), Len(Applied(pre))) :
                Applied(db)[i].down_sql = Local[i].down_sql
          /\ \A i \in (Len(Local) + 1)..Len(Applied(pre)) :
                Applied(db)[i] = Applied(pre)[i]
          /\ { log[k].version : k \in Issued("update") } =
             { Applied(pre)[i].name.version : i \in DownDiffers(Local, Applied(pre)) }
          /\ Cardinality(Issued("update")) =
             Cardinality(DownDiffers(Local, Applied(pre)))
    /\ (Done("update_rollback_sql") /\ result.kind = "OtherError") =>
          \E i \in 1..Min(Len(Local), Len(Applied(pre))) :
              Local[i].name # Applied(pre)[i].name

\* a shorter local collection made a stored down_sql absent
C10_Witness ==
    /\ Done("update_rollback_sql")
    /\ result = Ok
    /\ Len(Local) < Len(Applied(pre))
    /\ \E i \in 1..Len(Local) :
          /\ Local[i].down_sql = None
          /\ Applied(pre)[i].down_sql # None
          /\ Applied(db)[i].down_sql = None

\* the indexes of the common part at which local and applied differ in
\* version or name
NameDiffers(local, applied) ==
    { i \in 1..Min(Len(local), Len(applied)) : local[i].name # applied[i].name }

\* C11: an update_rollback_sql whose local and applied change sets differ in
\* version or name at an index of the common part fails, and no stored
\* down_sql is changed, also not those of the lower indexes the call had
\* already updated.
C11_UpdateRollbackSqlDivergence ==
    (Done("update_rollback_sql") /\ NameDiffers(Local, Applied(pre)) # {}) =>
        /\ result \in {OtherError("version number or version name is not match"),
                       PostgresError}
        /\ db = pre
        /\ Applied(db) = Applied(pre)

\* the call updated the down_sql of a lower index, then met the divergence
C11_Witness ==
    /\ Done("update_rollback_sql")
    /\ result = OtherError("version number or version name is not match")
    /\ Issued("update") # {}
    /\ \A k \in Issued("update") : log[k].ok
    /\ NameDiffers(Local, Applied(pre)) # {}
    /\ db = pre

\* the lowest index of the common part at which the down_sql differ
FirstDownDiffers(local, applied) ==
    CHOOSE i \in DownDiffers(local, applied) :
        \A j \in DownDiffers(local, applied) : i <= j

\* C12: when local holds every applied change set with its version, name and
\* up_sql and only down_sql differ, migrate(local) fails with the down SQL
\* mismatch of the lowest such index and changes nothing; right after a
\* successful update_rollback_sql(local) the same migrate(local) passes the
\* diff, and with every statement executed it succeeds and the applied change
\* sets are local.
C12_DownSqlAsymmetry ==
    /\ (Done("migrate") /\ OnlyDownSqlDiffers(Local, Applied(pre))) =>
          /\ result = InconsistentMigrationError("Down SQL mismatch",
                 Local[FirstDownDiffers(Local, Applied(pre))].name.version)
          /\ db = pre
          /\ log = <<>>
    /\ (Done("migrate") /\ resynced = Some(call.changesets) /\ call.count = None) =>
          /\ IsPrefix(Applied(pre), Local)
          /\ result \in {Ok, PostgresError}
          /\ result = PostgresError => \E k \in 1..Len(log) : ~log[k].ok
          /\ result = Ok => Applied(db) = Local

\* migrate(local) right after the resync applied a pending change set
C12_Witness ==
    /\ Done("migrate")
    /\ resynced = Some(call.changesets)
    /\ call.count = None
    /\ result = Ok
    /\ Len(Applied(pre)) >= 1
    /\ Len(Applied(db)) > Len(Applied(pre))

\* migrate(local) refused because a stored down_sql is not the local one
C12_WitnessMismatch ==
    /\ Done("migrate")
    /\ OnlyDownSqlDiffers(Local, Applied(pre))
    /\ Len(Local) > Len(Applied(pre))

\* C16: migrate(local, Some(n)) with n above the number of pending change
\* sets fails (the slice of subset(..n) is out of range), executes no up_sql,
\* inserts no row and commits nothing; it does not apply the pending change
\* sets that exist.
C16_MigrateCountTooLarge ==
    (/\ Done("migrate")
     /\ call.count # None
     /\ IsPrefix(Applied(pre), Local)
     /\ call.count[1] > Len(Local) - Len(Applied(pre))) =>
        /\ result = Panic
        /\ log = <<>>
        /\ db = pre

\* a migrate refused for asking one more than the pending change sets
C16_Witness ==
    /\ Done("migrate")
    /\ call.count # None
    /\ IsPrefix(Applied(pre), Local)
    /\ Len(Local) - Len(Applied(pre)) >= 1
    /\ call.count[1] = Len(Local) - Len(Applied(pre)) + 1
    /\ result = Panic
    /\ db = pre

\* calc_diff has returned for self = DiffSelf and original_sets = DiffOriginal
Diffed == pc = "returned" /\ Len(input) = 2

DiffSelf == input[1].change_sets

DiffOriginal == input[2].change_sets

\* C13: when the original is an exact prefix of self, calc_diff returns
\* exactly what follows it in self, in self's order and under self's
\* group_name: nothing when they are equal, all of self when the original is
\* empty.
C13_DiffOfPrefix ==
    (Diffed /\ IsPrefix(DiffOriginal, DiffSelf)) =>
        /\ output.res = Ok
        /\ output.sets.group_name = input[1].group_name
        /\ Len(output.sets.change_sets) = Len(DiffSelf) - Len(DiffOriginal)
        /\ \A i \in 1..Len(output.sets.change_sets) :
              output.sets.change_sets[i] = DiffSelf[Len(DiffOriginal) + i]
        /\ DiffOriginal = DiffSelf => output.sets.change_sets = <<>>
        /\ DiffOriginal = <<>> => output.sets = input[1]

\* a proper, non-empty prefix loaded under another group name
C13_Witness ==
    /\ Diffed
    /\ IsPrefix(DiffOriginal, DiffSelf)
    /\ DiffOriginal # <<>>
    /\ Len(DiffOriginal) < Len(DiffSelf)
    /\ input[2].group_name # input[1].group_name
    /\ output.res = Ok
    /\ output.sets.change_sets # <<>>

\* the indexes of the common part at which self and original differ
Differs(local, original) ==
    { i \in 1..Min(Len(local), Len(original)) : local[i] # original[i] }

\* the error of one differing pair: version, then name, then up_sql, then down_sql
PairError(l, o) ==
    IF l.name.version # o.name.version
    THEN VersionMismatchError(l.name.version, o.name.version)
    ELSE IF l.name.name # o.name.name
    THEN InconsistentMigrationError("Mismatch name", l.name.version)
    ELSE IF l.up_sql # o.up_sql
    THEN InconsistentMigrationError("Up SQL mismatch", l.name.version)
    ELSE InconsistentMigrationError("Down SQL mismatch", l.name.version)

\* C14: when self and original differ at an index of the common part,
\* calc_diff fails with the error of the lowest such index, and at that index
\* with the first failing check of version, name, up_sql, down_sql.
C14_DiffFirstMismatch ==
    (Diffed /\ Differs(DiffSelf, DiffOriginal) # {}) =>
        LET i == CHOOSE k \in Differs(DiffSelf, DiffOriginal) :
                     \A j \in Differs(DiffSelf, DiffOriginal) : k <= j
        IN  output.res = PairError(DiffSelf[i], DiffOriginal[i])

\* index 1 differs in up_sql and down_sql, index 2 in version
C14_Witness ==
    /\ Diffed
    /\ Differs(DiffSelf, DiffOriginal) = {1, 2}
    /\ DiffSelf[1].name = DiffOriginal[1].name
    /\ DiffSelf[1].up_sql # DiffOriginal[1].up_sql
    /\ DiffSelf[1].down_sql # DiffOriginal[1].down_sql
    /\ DiffSelf[2].name.version # DiffOriginal[2].name.version
    /\ output.res = InconsistentMigrationError("Up SQL mismatch", DiffSelf[1].name.version)

\* C15: when the original is longer than self and agrees with all of self,
\* calc_diff fails with "Some migration is not found in local files" and the
\* version of original[len(self)]; a mismatch in the common part goes first.
C15_DiffHistoryAhead ==
    (Diffed /\ Len(DiffSelf) < Len(DiffOriginal)) =>
        IF IsPrefix(DiffSelf, DiffOriginal)
        THEN output.res = InconsistentMigrationError(
                              "Some migration is not found in local files",
                              DiffOriginal[Len(DiffSelf) + 1].name.version)
        ELSE /\ output.res # Ok
             /\ output.res.msg # "Some migration is not found in local files"
             /\ output.res.local \in { DiffSelf[i].name.version : i \in 1..Len(DiffSelf) }

\* the history is two ahead of an empty self
C15_Witness ==
    /\ Diffed
    /\ DiffSelf = <<>>
    /\ Len(DiffOriginal) = 2
    /\ output.res = InconsistentMigrationError(
                        "Some migration is not found in local files",
                        DiffOriginal[1].name.version)

\* the history is ahead, and a change set of the common part differs
C15_WitnessPrecedence ==
    /\ Diffed
    /\ Len(DiffSelf) < Len(DiffOriginal)
    /\ Differs(DiffSelf, DiffOriginal) # {}
    /\ output.res # Ok

\* the tracking rows of a database state that belong to the called group
GroupRows(d) == { r \in d.rows : r.group_name = call.changesets.group_name }

\* C17: load_applied_change_sets(G) returns exactly the committed tracking rows
\* of group G, ascending by version and under group_name G (none when nothing
\* is applied for G); it leaves the tracking table created and changes no
\* tracking row and no schema object.
C17_LoadAppliedChangeSets ==
    Done("load_applied_change_sets") =>
        /\ db.rows = pre.rows
        /\ db.schema = pre.schema
        /\ result \in {Ok, PostgresError}
        /\ result = Ok =>
              /\ db.exists
              /\ Len(output) = 1
              /\ output[1].group_name = call.changesets.group_name
              /\ LET sets == output[1].change_sets
                 IN  /\ { TrackingRow(call.changesets.group_name, sets[i]) :
                             i \in 1..Len(sets) } = GroupRows(pre)
                     /\ \A i, j \in 1..Len(sets) :
                           i < j => sets[i].name.version < sets[j].name.version
                     /\ GroupRows(pre) = {} => sets = <<>>

\* the change set of the group is returned while the table also holds a row
\* of the other group with the same version
C17_Witness ==
    /\ Done("load_applied_change_sets")
    /\ result = Ok
    /\ Len(output) = 1
    /\ Len(output[1].change_sets) = 1
    /\ \E r \in pre.rows \ GroupRows(pre) :
          r.version = output[1].change_sets[1].name.version

\* two change sets of the group are returned
C17_WitnessOrdered ==
    /\ Done("load_applied_change_sets")
    /\ result = Ok
    /\ Len(output) = 1
    /\ Len(output[1].change_sets) = 2

\* the call found no tracking table and left one, empty
C17_WitnessCreates ==
    /\ Done("load_applied_change_sets")
    /\ result = Ok
    /\ ~pre.exists
    /\ db.exists
    /\ output = << MigrationChangeSets(call.changesets.group_name, <<>>) >>

\* load has returned for the listing `input`
Loaded == pc = "loaded"

\* the entries of the listing that parse as up files of the version
UpFilesOf(version) ==
    { i \in 1..Len(input) :
        LET name == parse(file_name(input[i].path))
        IN  /\ name.res = Ok
            /\ name.parsed # None
            /\ name.parsed[1].kind = "Up"
            /\ name.parsed[1].name.version = version }

\* the versions that have an up file in the listing, 0 to i32::MAX
UpVersions ==
    { parse(file_name(input[i].path)).parsed[1].name.version :
        i \in { k \in 1..Len(input) :
                  LET name == parse(file_name(input[k].path))
                  IN  name.res = Ok /\ name.parsed # None /\ name.parsed[1].kind = "Up" } }

\* C18: a collection the loader returns is strictly ascending by version, so
\* no two change sets share a version; when several up files parse to one
\* version exactly one change set is kept for it, and its name and up_sql are
\* those of one and the same file.
C18_LoadedStrictlyAscending ==
    (Loaded /\ output.res = Ok) =>
        LET sets == output.sets.change_sets
        IN  /\ \A i, j \in 1..Len(sets) :
                  i < j => sets[i].name.version < sets[j].name.version
            /\ { sets[i].name.version : i \in 1..Len(sets) } = UpVersions
            /\ \A i \in 1..Len(sets) :
                  \E k \in UpFilesOf(sets[i].name.version) :
                      /\ sets[i].name = parse(file_name(input[k].path)).parsed[1].name
                      /\ Some(sets[i].up_sql) = input[k].data

\* 001__a__up.sql and 1__b__up.sql are both listed, with one more version
C18_Witness ==
    /\ Loaded
    /\ output.res = Ok
    /\ Cardinality(UpFilesOf(1)) = 2
    /\ Len(output.sets.change_sets) = 2
    /\ output.sets.change_sets[1].name.version = 1

\* the entries that match the up or the down pattern and whose content is
\* read but is not valid UTF-8
InvalidUtf8 ==
    { i \in 1..Len(input) :
        LET name == parse(file_name(input[i].path))
        IN  /\ name.res = Ok
            /\ name.parsed # None
            /\ input[i].data # None
            /\ ~from_utf8(input[i].data[1], 1) }

\* the loop of load gets to entry i: no entry before it fails
Reaches(i) == load_scan(SubSeq(input, 1, i - 1), 1, <<>>, <<>>).res = Ok

\* C19, as the claim states it: a matching file whose content is not valid
\* UTF-8 makes the loader return the Utf8Error kind as an Err value, without
\* a collection and without a panic.
C19_InvalidUtf8IsErr ==
    (Loaded /\ \E i \in InvalidUtf8 : Reaches(i)) =>
        /\ output.res = Utf8Error
        /\ output.sets.change_sets = <<>>

\* the loader got to 11__d__up.sql, whose content is the byte 0xFF, and the
\* unwrap of from_utf8 panicked
C19_Witness ==
    /\ Loaded
    /\ \E i \in InvalidUtf8 : Reaches(i) /\ input[i].data = Some(<<255>>)
    /\ output.res = Utf8Panic

\* the entries whose name matches the up or the down pattern with a digit run
\* above i32::MAX
Overflows ==
    { i \in 1..Len(input) :
        LET name == file_name(input[i].path)
            cap == IF UP_NAME(name) # None THEN UP_NAME(name) ELSE DOWN_NAME(name)
        IN  cap # None /\ parse_i32(cap[1][1], 1, 0) = None }

\* C20, as the claim states it: a matching filename whose digit run does not
\* fit an i32 makes the loader return the ParseIntError kind as an Err value;
\* it does not panic and yields no change set for that file.
C20_OverflowIsErr ==
    (Loaded /\ \E i \in Overflows : Reaches(i)) =>
        /\ output.res = ParseIntError
        /\ output.sets.change_sets = <<>>

\* the loader got to 99999999999__x__up.sql and the unwrap of parse panicked
C20_Witness ==
    /\ Loaded
    /\ \E i \in Overflows :
          /\ Reaches(i)
          /\ input[i].path =
                UpFile(<<"9", "9", "9", "9", "9", "9", "9", "9", "9", "9", "9">>, <<"x">>)
    /\ output.res = ParseIntPanic
    /\ output.sets.change_sets = <<>>

\* the entries of the listing that parse as files of the kind and the version
FilesOf(kind, version) ==
    { i \in 1..Len(input) :
        LET name == parse(file_name(input[i].path))
        IN  /\ name.res = Ok
            /\ name.parsed # None
            /\ name.parsed[1].kind = kind
            /\ name.parsed[1].name.version = version }

\* no two up files and no two down files of the listing parse to one version
NoCollision ==
    \A i, j \in 1..Len(input) :
        LET a == parse(file_name(input[i].path))
            b == parse(file_name(input[j].path))
        IN  (/\ i # j
             /\ a.res = Ok /\ a.parsed # None
             /\ b.res = Ok /\ b.parsed # None
             /\ a.parsed[1].kind = b.parsed[1].kind) =>
                a.parsed[1].name.version # b.parsed[1].name.version

\* the listing iterated in the order p
Reordered(p) == [i \in 1..Len(input) |-> input[p[i]]]

\* the listing as a bundle yields it: every path without its directory part
Basenames == [i \in 1..Len(input) |-> File(file_name(input[i].path), input[i].data)]

\* C21: for a listing in which no two up files and no two down files parse to
\* the same version, the collection the loader returns is the one it returns
\* for the same files iterated in any other order, with or without their
\* directory part, whatever the order in which the map yields its keys.
C21_LoadOrderIndependent ==
    (Loaded /\ output.res = Ok /\ NoCollision) =>
        \A p \in Orders(1..Len(input)) :
            \A filenames \in { Reordered(p),
                               [i \in 1..Len(input) |-> Basenames[p[i]]] } :
                LET maps == load_scan(filenames, 1, <<>>, <<>>)
                IN  /\ maps.res = Ok
                    /\ \A order \in Orders(DOMAIN maps.up_sql) :
                          load(GroupName, filenames, order) = output

\* three files of two versions are loaded, one of them from a directory
C21_Witness ==
    /\ Loaded
    /\ output.res = Ok
    /\ NoCollision
    /\ Len(input) = 3
    /\ Len(output.sets.change_sets) = 2
    /\ \E i \in 1..Len(input) : file_name(input[i].path) # input[i].path
    /\ output.sets.change_sets[1].down_sql # None

\* entry i is skipped or loaded without a failure: its name does not match,
\* or its version fits an i32 and its content is read and is valid UTF-8
Fine(i) ==
    LET name == parse(file_name(input[i].path))
    IN  /\ name.res = Ok
        /\ name.parsed # None =>
              input[i].data # None /\ from_utf8(input[i].data[1], 1)

\* the entry of the set that is iterated last
Last(entries) == CHOOSE i \in entries : \A j \in entries : j <= i

\* the versions that have a down file in the listing and no up file
DownOnly ==
    { v \in { parse(file_name(input[i].path)).parsed[1].name.version :
                i \in { k \in 1..Len(input) :
                          Fine(k) /\ parse(file_name(input[k].path)).parsed # None } } :
        FilesOf("Down", v) # {} /\ FilesOf("Up", v) = {} }

\* C26: the loaded collection has exactly one change set per version that has
\* an up file; its up_sql is the content of that up file (of the one iterated
\* last when there are several) and its down_sql the content of the down file
\* of the same version, absent when there is none; a version with only a down
\* file gives no change set and no error.
C26_LoadedContent ==
    Loaded =>
        /\ output.res = Ok <=> \A i \in 1..Len(input) : Fine(i)
        /\ output.res = Ok =>
              LET sets == output.sets.change_sets
              IN  /\ Len(sets) = Cardinality(UpVersions)
                  /\ { sets[i].name.version : i \in 1..Len(sets) } = UpVersions
                  /\ \A i \in 1..Len(sets) :
                        LET v == sets[i].name.version
                        IN  /\ Some(sets[i].up_sql) = input[Last(FilesOf("Up", v))].data
                            /\ sets[i].down_sql =
                                  IF FilesOf("Down", v) = {} THEN None
                                  ELSE Some(input[Last(FilesOf("Down", v))].data[1])

\* a version with an up and a down file is loaded with both contents while
\* the down file of another version is dropped
C26_Witness ==
    /\ Loaded
    /\ output.res = Ok
    /\ DownOnly # {}
    /\ Len(output.sets.change_sets) = 1
    /\ output.sets.change_sets[1].down_sql # None

\* a version with an up file and no down file
C26_WitnessNoDown ==
    /\ Loaded
    /\ output.res = Ok
    /\ Len(output.sets.change_sets) = 2
    /\ output.sets.change_sets[1].down_sql # None
    /\ output.sets.change_sets[2].down_sql = None

\* the basename matches ^(\d+)__(.+)__up\.sql$ or ^(\d+)__(.*)__down\.sql$,
\* the dot before sql being a literal dot
MatchesLiteralDot(name) ==
    /\ (UP_NAME(name) # None \/ DOWN_NAME(name) # None)
    /\ name[Len(name) - 3] = "."

\* C27, as the claim states it: only a basename that matches the up pattern
\* with a literal dot before sql is loaded as an up file; any other filename,
\* 1__a__upXsql for one, is skipped and contributes nothing to the collection.
C27_LiteralDotOnly ==
    (Loaded /\ output.res = Ok) =>
        \A i \in 1..Len(output.sets.change_sets) :
            \E k \in 1..Len(input) :
                /\ MatchesLiteralDot(file_name(input[k].path))
                /\ parse(file_name(input[k].path)).parsed[1].kind = "Up"
                /\ parse(file_name(input[k].path)).parsed[1].name =
                      output.sets.change_sets[i].name
                /\ input[k].data = Some(output.sets.change_sets[i].up_sql)

\* the listing holds 1__a__upXsql alone, and its content is loaded as the
\* up_sql of version 1
C27_Witness ==
    /\ Loaded
    /\ Len(input) = 1
    /\ ~MatchesLiteralDot(file_name(input[1].path))
    /\ input[1].path[Len(input[1].path) - 3] = "X"
    /\ output.res = Ok
    /\ Len(output.sets.change_sets) = 1
    /\ output.sets.change_sets[1].name.version = 1
    /\ Some(output.sets.change_sets[1].up_sql) = input[1].data

\* the two values have been compared
Compared == pc = "compared"

\* name a sorts before name b: a is a proper prefix of b, or at the first
\* index where they differ a has the smaller byte
NameBefore(a, b) ==
    \E k \in 1..(Len(b)) :
        /\ \A j \in 1..(k - 1) : j <= Len(a) /\ a[j] = b[j]
        /\ \/ k = Len(a) + 1
           \/ k <= Len(a) /\ CharCode[a[k]] < CharCode[b[k]]

\* C22: the order of ChangeSetVersionName is the lexicographic total order on
\* (version, name): the smaller version is less whatever the names, equal
\* versions are ordered by their names, and two values are equal exactly when
\* version and name are both equal.
C22_VersionNameOrder ==
    Compared =>
        LET a == input[1]
            b == input[2]
        IN  /\ a.version < b.version => output.ord = "Less"
            /\ a.version > b.version => output.ord = "Greater"
            /\ a.version = b.version =>
                  /\ output.ord = "Less" <=> NameBefore(a.name, b.name)
                  /\ output.ord = "Greater" <=> NameBefore(b.name, a.name)
            /\ output.eq <=> (a.version = b.version /\ a.name = b.name)
            /\ output.ord = "Equal" <=> output.eq
            /\ output.ord = "Less" <=> cmp(b, a) = "Greater"
            /\ \A c \in VersionNames :
                  (output.ord = "Less" /\ cmp(b, c) = "Less") => cmp(a, c) = "Less"

\* {100, "bar"} is less than {100, "foo"}
C22_Witness ==
    /\ Compared
    /\ input[1] = ChangeSetVersionName(100, <<"b", "a", "r">>)
    /\ input[2] = ChangeSetVersionName(100, <<"f", "o", "o">>)
    /\ output.ord = "Less"
    /\ ~output.eq

\* {111, "foo"} is less than {200, "bar"}: the names are not consulted
C22_WitnessVersionFirst ==
    /\ Compared
    /\ input[1] = ChangeSetVersionName(111, <<"f", "o", "o">>)
    /\ input[2] = ChangeSetVersionName(200, <<"b", "a", "r">>)
    /\ output.ord = "Less"

\* the change set of the sequence that has the version
WithVersion(change_sets, version) ==
    change_sets[CHOOSE i \in 1..Len(change_sets) : change_sets[i].name.version = version]

\* C24: migrate executes the change sets of its plan one at a time in strictly
\* ascending version order: for each one its up_sql, then the insert of its
\* tracking row (group, version, name, up_sql, down_sql); the up_sql of the
\* next one is not executed before that insert has succeeded.
C24_MigrateStepOrder ==
    call.op = "migrate" =>
        /\ \A k \in 1..Len(log) :
              /\ log[k].stmt \in {"batch_execute", "insert", "commit"}
              /\ log[k].stmt = "batch_execute" =>
                    /\ \E i \in 1..Len(Local) : Local[i].name.version = log[k].version
                    /\ log[k].sql = WithVersion(Local, log[k].version).up_sql
                    /\ k > 1 =>
                          /\ log[k - 1].stmt = "insert"
                          /\ log[k - 1].ok
                          /\ log[k - 1].version < log[k].version
              /\ log[k].stmt = "insert" =>
                    /\ k > 1
                    /\ log[k - 1].stmt = "batch_execute"
                    /\ log[k - 1].ok
                    /\ log[k - 1].version = log[k].version
              /\ log[k].stmt = "commit" => k = Len(log) /\ pc = "done"
        /\ pc = "migrate" =>
              /\ \A k \in Issued("insert") : log[k].ok
              /\ tx.rows = pre.rows \cup
                    { TrackingRow(call.changesets.group_name,
                                  WithVersion(Local, log[k].version)) : k \in Issued("insert") }

\* a migrate that applied two change sets and committed
C24_Witness ==
    /\ Done("migrate")
    /\ result = Ok
    /\ Cardinality(Issued("batch_execute")) = 2
    /\ Cardinality(Issued("insert")) = 2
    /\ Len(Applied(db)) = 2

\* C25: rollback processes the selected change sets one at a time in strictly
\* descending version order: for each one the delete of its tracking row,
\* then its stored down_sql when it has one; the row of the next lower
\* version is not deleted before that down_sql has completed.
C25_RollbackStepOrder ==
    call.op = "rollback" =>
        \A k \in 1..Len(log) :
            /\ log[k].stmt \in {"delete", "batch_execute", "commit"}
            /\ log[k].stmt = "delete" =>
                  /\ \E i \in 1..Len(Applied(pre)) :
                        Applied(pre)[i].name.version = log[k].version
                  /\ k > 1 =>
                        /\ log[k - 1].ok
                        /\ log[k - 1].version > log[k].version
                        /\ log[k - 1].stmt = "delete" =>
                              WithVersion(Applied(pre), log[k - 1].version).down_sql = None
            /\ log[k].stmt = "batch_execute" =>
                  /\ k > 1
                  /\ log[k - 1].stmt = "delete"
                  /\ log[k - 1].ok
                  /\ log[k - 1].version = log[k].version
                  /\ WithVersion(Applied(pre), log[k].version).down_sql = Some(log[k].sql)
            /\ log[k].stmt = "commit" => k = Len(log) /\ pc = "done"

\* a rollback of two change sets that both have down_sql, committed
C25_Witness ==
    /\ Done("rollback")
    /\ result = Ok
    /\ Cardinality(Issued("delete")) = 2
    /\ Cardinality(Issued("batch_execute")) = 2
    /\ Applied(db) = <<>>

\* C28: from an empty tracking table, with every migrate, rollback and
\* update_rollback_sql called with the one local collection, whether the
\* calls succeed or fail, the committed tracking rows of the group are an
\* exact prefix of the local collection.
C28_PrefixInvariant ==
    IsPrefix(query_change_sets(db, input.group_name).change_sets, input.change_sets)

\* a rollback has committed and left the first of two local change sets
C28_Witness ==
    /\ Done("rollback")
    /\ result = Ok
    /\ Len(input.change_sets) = 2
    /\ Len(Applied(pre)) = 2
    /\ Applied(db) = << input.change_sets[1] >>

\* a migrate failed at the second change set after a rollback that left the
\* schema of a change set without down_sql
C28_WitnessFailure ==
    /\ Done("migrate")
    /\ result = PostgresError
    /\ log # <<>>
    /\ pre.schema # {}
    /\ Len(Applied(db)) < Len(input.change_sets)

\* the tracking rows of a database state that belong to other groups
OtherRows(d) == d.rows \ GroupRows(d)

\* the database state without the tracking rows of other groups
WithoutOthers(d) == [d EXCEPT !.rows = GroupRows(d)]

\* the three calls that change tracking rows
Changing == call.op \in {"migrate", "rollback", "update_rollback_sql"}

\* C30: migrate, rollback and update_rollback_sql insert, delete and modify
\* no tracking row of another group, and what they do (the plan or the error
\* after loading, the outcome and the statements of every step of the loop)
\* is what they would do without the tracking rows of the other groups, also
\* when another group holds the same versions.
C30_GroupIsolation ==
    Changing =>
        LET group_name == call.changesets.group_name
        IN  /\ OtherRows(tx) = OtherRows(pre)
            /\ OtherRows(db) = OtherRows(pre)
            /\ call.op = "migrate" =>
                  LET with == migrate_postgres(pre, call.changesets, call.count)
                      without == migrate_postgres(WithoutOthers(pre), call.changesets, call.count)
                  IN  with.res = without.res /\ with.todo = without.todo
            /\ call.op = "rollback" =>
                  LET with == rollback_postgres(pre, group_name, call.count)
                      without == rollback_postgres(WithoutOthers(pre), group_name, call.count)
                  IN  with.res = without.res /\ with.todo = without.todo
            /\ call.op = "update_rollback_sql" =>
                  update_rollback_sql_postgres(pre, call.changesets).todo =
                     update_rollback_sql_postgres(WithoutOthers(pre), call.changesets).todo
            /\ (pc = call.op /\ todo # <<>>) =>
                  \A fault \in BOOLEAN :
                      LET with ==
                              CASE pc = "migrate" ->
                                     migrate_one(tx, group_name, Head(todo), fault)
                                [] pc = "rollback" ->
                                     rollback_one(tx, group_name, Head(todo), fault)
                                [] pc = "update_rollback_sql" ->
                                     update_rollback_sql_pair(tx, group_name,
                                         Head(todo)[1], Head(todo)[2], fault)
                          without ==
                              CASE pc = "migrate" ->
                                     migrate_one(WithoutOthers(tx), group_name, Head(todo), fault)
                                [] pc = "rollback" ->
                                     rollback_one(WithoutOthers(tx), group_name, Head(todo), fault)
                                [] pc = "update_rollback_sql" ->
                                     update_rollback_sql_pair(WithoutOthers(tx), group_name,
                                         Head(todo)[1], Head(todo)[2], fault)
                      IN  /\ with.log = without.log
                          /\ with.tx.rows \ OtherRows(tx) = without.tx.rows
                          /\ with.tx.schema = without.tx.schema

\* a rollback removed the row of its group and left the row that another
\* group holds for the same version
C30_Witness ==
    /\ Done("rollback")
    /\ result = Ok
    /\ GroupRows(pre) # {}
    /\ GroupRows(db) = {}
    /\ OtherRows(db) # {}
    /\ \E r \in GroupRows(pre) : \E o \in OtherRows(db) : r.version = o.version

\* a migrate applied a version that another group already holds
C30_WitnessMigrate ==
    /\ Done("migrate")
    /\ result = Ok
    /\ \E r \in GroupRows(db) \ GroupRows(pre) :
          \E o \in OtherRows(pre) : r.version = o.version

\* an update_rollback_sql rewrote a down_sql while another group holds the
\* same version
C30_WitnessUpdate ==
    /\ Done("update_rollback_sql")
    /\ result = Ok
    /\ Issued("update") # {}
    /\ \E k \in Issued("update") : \E o \in OtherRows(db) : log[k].version = o.version

\* the tracking rows a database state holds for a group
RowsOf(d, group_name) == { r \in d.rows : r.group_name = group_name }

\* the group of the j-th migrate call of the run
RunGroup(j) == input.changesets[output.runs[j].index].group_name

\* C23: the migrate command calls migrate for the configured groups one at a
\* time, in configuration order, each call being its own transaction: when
\* the call of a group fails the groups before it stay committed, the failing
\* group commits nothing, and no group after it is attempted.
C23_GroupsFailFast ==
    pc \in {"idle", "migrate", "done", "exit"} =>
        LET runs == output.runs
        IN  /\ \A j \in 1..Len(runs) :
                  /\ j > 1 => /\ runs[j - 1].index < runs[j].index
                              /\ runs[j - 1].result = Ok
                              /\ runs[j].pre = runs[j - 1].post
                  /\ runs[j].result # Ok =>
                        /\ j = Len(runs)
                        /\ runs[j].post = runs[j].pre
                        /\ output.exit = Some(runs[j].result)
                        /\ pc = "exit"
                  /\ RowsOf(db, RunGroup(j)) = RowsOf(runs[j].post, RunGroup(j))
                  /\ \A i \in 1..(j - 1) :
                        RowsOf(runs[j].post, RunGroup(i)) = RowsOf(runs[i].post, RunGroup(i))
            /\ \A k \in 1..Len(input.changesets) :
                  (/\ \A j \in 1..Len(runs) : runs[j].index # k
                   /\ ~(k = output.next /\ pc \in {"migrate", "done"})) =>
                      RowsOf(db, input.changesets[k].group_name) = {}
            /\ (output.exit # None /\ output.exit # Some(Ok)) =>
                  /\ pc = "exit"
                  /\ \A j \in 1..Len(runs) : runs[j].index <= output.next
                  /\ db = IF runs = <<>> THEN EmptyDatabase ELSE runs[Len(runs)].post

\* the first group is committed, the second fails and commits nothing
C23_Witness ==
    /\ pc = "exit"
    /\ Len(output.runs) = 2
    /\ output.runs[1].result = Ok
    /\ output.runs[2].result # Ok
    /\ output.exit = Some(output.runs[2].result)
    /\ RowsOf(db, RunGroup(1)) # {}
    /\ RowsOf(db, RunGroup(2)) = {}

\* the first of two groups fails and the second is not attempted
C23_WitnessNotAttempted ==
    /\ pc = "exit"
    /\ Len(input.changesets) = 2
    /\ input.group_name = None
    /\ input.changesets[2].loaded # None
    /\ Len(output.runs) = 1
    /\ output.runs[1].index = 1
    /\ output.runs[1].result # Ok
    /\ db.rows = {}

\* the (statement, version) pairs of up_sql runs and tracking-row inserts
\* that committed transactions hold
CommittedOnce ==
    \A i, j \in 1..Len(output) :
        ( /\ output[i].stmt \in {"batch_execute", "insert"}
          /\ output[i].stmt = output[j].stmt
          /\ output[i].version = output[j].version ) => i = j

\* connection c has returned Err
Aborted(c) == pc[c] = "done" /\ result[c] # Ok

\* the INSERT of connection c failed on a row the other connection committed
\* after c had planned the same version
Collided(c) ==
    /\ Aborted(c)
    /\ log[c] # <<>>
    /\ LET last == log[c][Len(log[c])]
       IN  /\ last.stmt = "insert"
           /\ ~last.ok
           /\ \E i \in 1..Len(output) :
                /\ output[i].conn = Other(c)
                /\ output[i].stmt = "insert"
                /\ output[i].version = last.version

\* C29: when two migrate calls for the same group and the same local
\* collection run interleaved on two connections, every (group, version) is
\* committed at most once: the committed tracking table never holds two rows
\* with one (group_name, version), no up_sql run and no tracking-row insert of
\* a version is committed twice, and a call that returned an error, as the
\* one whose insert collides does, has committed nothing.
C29_CommittedAtMostOnce ==
    /\ \A r, q \in db.rows :
         (r.group_name = q.group_name /\ r.version = q.version) => r = q
    /\ CommittedOnce
    /\ \A r \in db.rows :
         \E i \in 1..Len(output) :
            output[i].stmt = "insert" /\ output[i].version = r.version
    /\ \A c \in Connections :
         Aborted(c) =>
            /\ tx[c] = EmptyDatabase
            /\ \A i \in 1..Len(output) : output[i].conn # c

\* both calls planned version 1 on the set-up table, connection 1 committed
\* it, and the insert of connection 2 collided after its up_sql had run
C29_Witness ==
    /\ Collided(2)
    /\ pc[1] = "done" /\ result[1] = Ok
    /\ \E i \in 1..Len(log[2]) : log[2][i].stmt = "batch_execute" /\ log[2][i].ok
    /\ db.rows # {}

\* both calls have returned Ok, the second one with nothing left to apply
C29_WitnessBothOk ==
    /\ \A c \in Connections : pc[c] = "done" /\ result[c] = Ok
    /\ db.rows # {}
    /\ \E c \in Connections : \A i \in 1..Len(log[c]) : log[c][i].stmt = "commit"

\* the name the up or down pattern captures from entry i of the listing
CapturedName(i) == parse(file_name(input[i].path)).parsed[1].name

\* the loaded change sets whose down file carries the given name while their
\* up file carries another one
PairedAcross(down_name) ==
    { i \in 1..Len(output.sets.change_sets) :
        LET v == output.sets.change_sets[i].name.version
        IN  /\ FilesOf("Down", v) # {}
            /\ CapturedName(Last(FilesOf("Down", v))).name = down_name
            /\ CapturedName(Last(FilesOf("Up", v))).name # down_name }

\* C33: the name of every loaded change set is the name captured from its up
\* file (the one iterated last for its version); the down file iterated last
\* for the same version is attached as its down_sql whatever name that down
\* file carries, a different one or the empty one, and the change set holds
\* nothing of the down file but its content.
C33_NameFromUpFile ==
    (Loaded /\ output.res = Ok) =>
        \A i \in 1..Len(output.sets.change_sets) :
            LET set == output.sets.change_sets[i]
                v == set.name.version
            IN  /\ DOMAIN set = {"name", "up_sql", "down_sql"}
                /\ FilesOf("Up", v) # {}
                /\ set.name = CapturedName(Last(FilesOf("Up", v)))
                /\ FilesOf("Down", v) # {} =>
                      /\ CapturedName(Last(FilesOf("Down", v))).version = v
                      /\ set.down_sql = Some(input[Last(FilesOf("Down", v))].data[1])

\* a change set named after its up file carries the content of a down file
\* whose name is empty
C33_Witness ==
    /\ Loaded
    /\ output.res = Ok
    /\ PairedAcross(<<>>) # {}
    /\ \A i \in PairedAcross(<<>>) :
          /\ output.sets.change_sets[i].down_sql # None
          /\ output.sets.change_sets[i].name.name # <<>>

\* a change set named after its up file carries the content of a down file
\* with another, non-empty name
C33_WitnessOtherName ==
    /\ Loaded
    /\ output.res = Ok
    /\ \E n \in {<<"a">>, <<"f">>} :
          /\ PairedAcross(n) # {}
          /\ \A i \in PairedAcross(n) : output.sets.change_sets[i].down_sql # None

\* the configured entries of the group the redo command is run for
RedoEntries ==
    { i \in 1..Len(input.changesets) :
        input.changesets[i].group_name = input.group_name[1] }

\* the command has rolled back: its first call is the rollback, which is Ok
RolledBack ==
    /\ Len(output.runs) >= 1
    /\ output.runs[1].op = "rollback"
    /\ output.runs[1].result = Ok

\* the group's tracking rows when the command started are a prefix of the
\* collection loaded for the group
RedoPrefix ==
    \E i \in RedoEntries :
        /\ input.changesets[i].loaded # None
        /\ IsPrefix(query_change_sets(output.start, input.group_name[1]).change_sets,
                    input.changesets[i].loaded[1].change_sets)

\* the migrate phase failed: load_dir or the migrate call returned an Err, or
\* the call panicked
MigratePhaseFailed ==
    /\ RolledBack
    /\ output.exit # None
    /\ output.exit[1] # Ok

\* C32: redo makes two calls that commit separately, rollback(G, Some(n)) and
\* then migrate(local_G, Some(n)) on what the rollback committed.  When the
\* tracking rows of G are a prefix of local_G and both calls return Ok, the
\* tracking rows of G after redo are those of before it; when the rollback
\* returned Ok and the migrate phase fails, the database is left as the
\* rollback committed it, with n rows of G fewer than before.
C32_RedoTwoTransactions ==
    output.phase = "exit" =>
        LET runs == output.runs
            G == input.group_name[1]
        IN  /\ Len(runs) <= 2
            /\ Len(runs) >= 1 =>
                  /\ runs[1].op = "rollback"
                  /\ runs[1].pre = output.start
                  /\ runs[1].result # Ok => (Len(runs) = 1 /\ db = output.start)
            /\ Len(runs) = 2 =>
                  /\ runs[2].op = "migrate"
                  /\ runs[2].pre = runs[1].post
                  /\ db = runs[2].post
            /\ (Len(runs) = 2 /\ runs[1].result = Ok /\ runs[2].result = Ok /\ RedoPrefix) =>
                  RowsOf(db, G) = RowsOf(output.start, G)
            /\ MigratePhaseFailed =>
                  /\ db = runs[1].post
                  /\ RowsOf(db, G) \subseteq RowsOf(output.start, G)
                  /\ Cardinality(RowsOf(db, G)) =
                        Cardinality(RowsOf(output.start, G)) - input.count
                  /\ db.rows \ RowsOf(db, G) = output.start.rows \ RowsOf(output.start, G)

\* both calls returned Ok on a table that held rows of the group, which were
\* a strict prefix of the local collection, and the rows are back
C32_Witness ==
    /\ output.phase = "exit"
    /\ output.exit = Some(Ok)
    /\ Len(output.runs) = 2
    /\ RedoPrefix
    /\ Cardinality(RowsOf(output.start, input.group_name[1])) = 1
    /\ \E i \in RedoEntries : Len(input.changesets[i].loaded[1].change_sets) = 2
    /\ RowsOf(output.runs[1].post, input.group_name[1]) = {}
    /\ RowsOf(db, input.group_name[1]) = RowsOf(output.start, input.group_name[1])

\* the rollback committed and the migrate call failed: the rows stay removed
C32_WitnessMigrateFails ==
    /\ output.phase = "exit"
    /\ MigratePhaseFailed
    /\ Len(output.runs) = 2
    /\ output.runs[2].result = PostgresError
    /\ RedoPrefix
    /\ RowsOf(output.start, input.group_name[1]) # {}
    /\ RowsOf(db, input.group_name[1]) = {}

\* the scripts the rollback call has executed for a version
ExecutedFor(version) ==
    { log[k].sql : k \in { j \in 1..Len(log) :
                             log[j].stmt = "batch_execute" /\ log[j].version = version } }

\* the rollback call has deleted the tracking row of the version
DeletedRow(version) ==
    \E k \in 1..Len(log) :
        log[k].stmt = "delete" /\ log[k].ok /\ log[k].version = version

\* the group's change sets as stored before update_rollback_sql was called
StoredBefore == query_change_sets(output.old, GroupName).change_sets

\* the positions update_rollback_sql paired: zip(local, stored)
Resynced == 1..Min(Len(output.local.change_sets), Len(StoredBefore))

\* the scripts a down_sql column holds: none, or the one
Scripts(down_sql) == IF down_sql = None THEN {} ELSE {down_sql[1]}

\* C31: a rollback executes for a version the down_sql its tracking row held
\* when the rollback began, and nothing when that column is absent; after an
\* update_rollback_sql(local) that returned Ok the column of every version it
\* paired is local's down_sql, so the rollback that follows executes for such
\* a version the script of local, not the one stored before, and executes
\* nothing for it when local has no down_sql.
C31_RollbackRunsStoredDownSql ==
    (output.phase = "rollback" /\ call.op = "rollback") =>
        /\ \A k \in 1..Len(log) :
              log[k].stmt = "batch_execute" =>
                  /\ DeletedRow(log[k].version)
                  /\ \E i \in 1..Len(Applied(pre)) :
                        Applied(pre)[i].name.version = log[k].version
        /\ \A i \in 1..Len(Applied(pre)) :
              LET v == Applied(pre)[i].name.version
              IN  /\ ExecutedFor(v) \subseteq Scripts(Applied(pre)[i].down_sql)
                  /\ DeletedRow(v) => ExecutedFor(v) = Scripts(Applied(pre)[i].down_sql)
        /\ output.result = Ok =>
              \A i \in Resynced :
                  LET new == output.local.change_sets[i]
                  IN  /\ Applied(pre)[i].name = new.name
                      /\ Applied(pre)[i].down_sql = new.down_sql
                      /\ ExecutedFor(new.name.version) \subseteq Scripts(new.down_sql)
                      /\ DeletedRow(new.name.version) =>
                            ExecutedFor(new.name.version) = Scripts(new.down_sql)

\* update_rollback_sql replaced the stored script of a version by another
\* script, and the rollback that followed executed the new one
C31_Witness ==
    /\ output.phase = "rollback"
    /\ Done("rollback")
    /\ result = Ok
    /\ output.result = Ok
    /\ \E i \in Resynced :
          LET new == output.local.change_sets[i]
          IN  /\ StoredBefore[i].down_sql # None
              /\ new.down_sql # None
              /\ StoredBefore[i].down_sql # new.down_sql
              /\ ExecutedFor(new.name.version) = {new.down_sql[1]}

\* update_rollback_sql removed the stored script of a version, and the
\* rollback that followed deleted the row and executed nothing for it
C31_WitnessAbsent ==
    /\ output.phase = "rollback"
    /\ Done("rollback")
    /\ result = Ok
    /\ output.result = Ok
    /\ \E i \in Resynced :
          LET new == output.local.change_sets[i]
          IN  /\ StoredBefore[i].down_sql # None
              /\ new.down_sql = None
              /\ DeletedRow(new.name.version)
              /\ ExecutedFor(new.name.version) = {}

=============================================================================
